---- MODULE Spec2Model ----
(***************************************************************************)
(* A model of the travel assistant's utilities and tools:                  *)
(*   - utils.ExpiringCache (get / set / clear) under an explicit clock,    *)
(*   - utils.retry (the retry-with-backoff decorator),                     *)
(*   - the execute methods of the tools that use them.                     *)
(* Dictionaries are functions whose domain is the set of keys present.     *)
(* Python strings that the code inspects are sequences of characters.      *)
(***************************************************************************)
EXTENDS Integers, Sequences, FiniteSets, TLC

VARIABLES
    cache,            \* ExpiringCache.cache : key -> value
    expiry,           \* ExpiringCache.expiry : key -> expiry time
    expiry_seconds,   \* ExpiringCache.expiry_seconds
    now,              \* the value time.time() returns
    cacheOp,          \* the cache operation that has just returned, with the state it started from
    setAt,            \* per key: the set() still in force, and the one it replaced
    max_tries,        \* retry(...) arguments
    delay_seconds,
    exceptions,
    tries,            \* wrapper locals
    current_delay,
    pc,               \* where the wrapper is
    outcome,          \* how the wrapper ended: a return value or an exception
    script,           \* what the wrapped callable does on its 1st, 2nd, ... invocation
    func_calls,       \* invocations of the wrapped callable so far
    sleeps,           \* the durations handed to time.sleep, in order
    tool,             \* the tool whose execute is being called
    kwargs,           \* the keyword arguments of that call
    attempts,         \* per invocation of execute: what went wrong in it, what it called
    requests,         \* calls of a tool's execute made so far
    SERPER_API_KEY,   \* is the environment variable set?
    flight_cache,     \* real_flight_tool.flight_cache : key -> (timestamp, data)
    lru,              \* the lru_cache of WebSearchTool._cached_search : key -> time
    threads,          \* per thread: the statement of ExpiringCache.get / set it is at
    simple,           \* the wrapper of travel_info_simple.retry: its locals and its result
    simple_cache,     \* travel_info_simple.travel_info_cache.cache : key -> value
    environ,          \* the environment variables that are set, the constructors that raise
    llm,              \* model selection: where the code is, the model it produced
    app,              \* direct_app.get_tool_results on a flight query
    sorting           \* _generate_mock_flights: the flights it filters and sorts

cacheVars == <<cache, expiry, expiry_seconds, cacheOp, setAt>>
retryVars == <<max_tries, delay_seconds, exceptions, tries, current_delay, pc,
               outcome, script, func_calls, sleeps>>
toolVars == <<tool, kwargs, attempts, requests, SERPER_API_KEY, flight_cache, lru>>
llmVars == <<environ, llm>>
appVars == <<app, sorting>>
otherVars == <<threads, simple, simple_cache, environ, llm, app, sorting>>
vars == <<cache, expiry, expiry_seconds, now, cacheOp, setAt,
          max_tries, delay_seconds, exceptions, tries, current_delay, pc,
          outcome, script, func_calls, sleeps,
          tool, kwargs, attempts, requests, SERPER_API_KEY, flight_cache, lru,
          threads, simple, simple_cache, environ, llm, app, sorting>>

----------------------------------------------------------------------------
(* Bounds of the model *)

MaxTime == 5          \* the clock of the cache model runs over 0..MaxTime
MaxTTL == 2           \* expiry_seconds of the cache model ranges over 1..MaxTTL
MaxTriesBound == 4    \* max_tries ranges over -1..MaxTriesBound
MaxDelay == 2         \* delay_seconds ranges over 1..MaxDelay

Keys == {"k1", "k2"}
Values == {"v1", "v2"}
None == "None"
NoSet == [t |-> -1, v |-> None, pt |-> -1, pv |-> None]

----------------------------------------------------------------------------
(* Python dictionaries *)

EmptyDict == [x \in {} |-> None]
DictPut(d, k, v) == [x \in (DOMAIN d) \cup {k} |-> IF x = k THEN v ELSE d[x]]
DictDel(d, k) == [x \in (DOMAIN d) \ {k} |-> d[x]]
DictGet(d, k, default) == IF k \in DOMAIN d THEN d[k] ELSE default

----------------------------------------------------------------------------
(* utils.ExpiringCache *)

\* set: the expiry stored for an entry written at time t
ExpiryNoTTL(t, S) == t
ExpiryAt(t, S) == t + S

\* get: `key in self.cache and now < self.expiry.get(key, 0)`
IsFresh(c, e, k, t) == k \in DOMAIN c /\ t < DictGet(e, k, 0)

\* get: the value returned
GetResult(c, e, k, t) == IF IsFresh(c, e, k, t) THEN c[k] ELSE None

\* get: `if key in self.cache: del self.cache[key]; del self.expiry[key]`
EvictKeepExpiry(c, e, k, t) == [c |-> DictDel(c, k), e |-> e]
Evict(c, e, k, t) ==
    IF ~IsFresh(c, e, k, t) /\ k \in DOMAIN c
    THEN [c |-> DictDel(c, k), e |-> DictDel(e, k)]
    ELSE [c |-> c, e |-> e]

\* set: the two assignments
SetKeepOldExpiry(c, e, k, v, t, S) ==
    [c |-> DictPut(c, k, v),
     e |-> IF k \in DOMAIN e THEN e ELSE DictPut(e, k, ExpiryAt(t, S))]
SetEvictingOthers(c, e, k, v, t, S) ==
    [c |-> DictPut(EmptyDict, k, v), e |-> DictPut(EmptyDict, k, ExpiryAt(t, S))]
SetMaps(c, e, k, v, t, S) ==
    [c |-> DictPut(c, k, v), e |-> DictPut(e, k, ExpiryAt(t, S))]

OpRecord(op, k, v, res) ==
    [op |-> op, key |-> k, value |-> v, result |-> res,
     cache0 |-> cache, expiry0 |-> expiry, held |-> DictGet(setAt, k, NoSet)]

ExpiringCache_get(k) ==
    LET after == Evict(cache, expiry, k, now) IN
    /\ cache' = after.c
    /\ expiry' = after.e
    /\ cacheOp' = OpRecord("get", k, None, GetResult(cache, expiry, k, now))
    /\ setAt' = IF k \in DOMAIN cache /\ k \notin DOMAIN after.c
                THEN [setAt EXCEPT ![k] = NoSet] ELSE setAt
    /\ UNCHANGED <<expiry_seconds, now>>

ExpiringCache_set(k, v) ==
    LET after == SetMaps(cache, expiry, k, v, now, expiry_seconds) IN
    /\ cache' = after.c
    /\ expiry' = after.e
    /\ cacheOp' = OpRecord("set", k, v, None)
    /\ setAt' = [setAt EXCEPT ![k] =
                    [t |-> now, v |-> v,
                     pt |-> IF k \in DOMAIN cache THEN setAt[k].t ELSE -1,
                     pv |-> IF k \in DOMAIN cache THEN setAt[k].v ELSE None]]
    /\ UNCHANGED <<expiry_seconds, now>>

ExpiringCache_clear ==
    /\ cache' = EmptyDict
    /\ expiry' = EmptyDict
    /\ cacheOp' = OpRecord("clear", None, None, None)
    /\ setAt' = [k \in Keys |-> NoSet]
    /\ UNCHANGED <<expiry_seconds, now>>

\* time.time() moves on between two calls
NoOp == [op |-> "none", key |-> None, value |-> None, result |-> None,
         cache0 |-> EmptyDict, expiry0 |-> EmptyDict, held |-> NoSet]

Tick ==
    /\ now < MaxTime
    /\ now' = now + 1
    /\ cacheOp' = NoOp
    /\ UNCHANGED <<cache, expiry, expiry_seconds, setAt>>

ToolsIdle ==
    /\ tool = "none" /\ kwargs = EmptyDict /\ attempts = << >> /\ requests = 0
    /\ flight_cache = EmptyDict /\ lru = EmptyDict

\* no thread is inside a method of the cache
Threads == {"t1", "t2"}
NoCall == [pc |-> "idle", key |-> None, value |-> None, expired |-> FALSE, held |-> NoSet]
ThreadsIdle == threads = [th \in Threads |-> NoCall]
\* travel_info_simple: no call of its wrapper yet, SimpleCache.__init__
SimpleIdle ==
    [tries |-> 0, pc |-> "idle", outcome |-> [kind |-> "none", val |-> None, at |-> 0],
     func_calls |-> 0, sleeps |-> << >>]
\* no model selection under way, in an environment that sets nothing
NoModel == [class |-> None, name |-> << >>, setup |-> FALSE]
LlmIdle == [pc |-> "idle", model_type |-> None, model |-> NoModel, error |-> None]
\* get_tool_results has not been called: `response_text`, `tool_results = {}`
AppIdle ==
    [pc |-> "idle", origin |-> << >>, destination |-> << >>, date_period |-> << >>,
     real_status |-> None, has_flights |-> FALSE,
     flights |-> [kind |-> "none", n |-> 0, id |-> 0], response_text |-> None]
\* _generate_mock_flights has not been called
SortIdle ==
    [pc |-> "idle", flights |-> << >>, sort_by |-> << >>, price_range |-> << >>,
     cabin_class |-> << >>, result |-> [kind |-> "return", val |-> << >>, at |-> 0]]
OthersIdle ==
    /\ ThreadsIdle /\ simple = SimpleIdle /\ simple_cache = EmptyDict
    /\ environ = [set |-> {}, raising |-> {}] /\ llm = LlmIdle
    /\ app = AppIdle /\ sorting = SortIdle

RetryIdle ==
    /\ max_tries = 0 /\ delay_seconds = 0 /\ exceptions = {}
    /\ tries = 0 /\ current_delay = 0 /\ pc = "idle"
    /\ outcome = [kind |-> "none", val |-> None, at |-> 0]
    /\ script = << >> /\ func_calls = 0 /\ sleeps = << >>

\* ExpiringCache.__init__
CacheInit(ttls) ==
    /\ cache = EmptyDict
    /\ expiry = EmptyDict
    /\ expiry_seconds \in ttls
    /\ now = 0
    /\ cacheOp = [op |-> "none", key |-> None, value |-> None, result |-> None,
                  cache0 |-> EmptyDict, expiry0 |-> EmptyDict, held |-> NoSet]
    /\ setAt = [k \in Keys |-> NoSet]

InitCache ==
    CacheInit(1..MaxTTL) /\ RetryIdle /\ ToolsIdle /\ OthersIdle /\ SERPER_API_KEY = FALSE

NextCache ==
    \/ \E k \in Keys : ExpiringCache_get(k) /\ UNCHANGED <<retryVars, toolVars, otherVars>>
    \/ \E k \in Keys, v \in Values : ExpiringCache_set(k, v) /\ UNCHANGED <<retryVars, toolVars, otherVars>>
    \/ ExpiringCache_clear /\ UNCHANGED <<retryVars, toolVars, otherVars>>
    \/ Tick /\ UNCHANGED <<retryVars, toolVars, otherVars>>

SpecCache == InitCache /\ [][NextCache]_vars

----------------------------------------------------------------------------
(* utils.ExpiringCache called from two threads.  The class takes no lock, so
   the threads interleave between the statements of get and set.  A thread's
   pc names the statement it executes next; expired says that its get found
   the key present and past its expiry; held is the set(key, ...) of another
   thread that was made and completed after such a test. *)

ThreadKeys == {"k1"}
KeyError == "KeyError"

ThreadReturn(th, op, res) ==
    [op |-> op, key |-> threads[th].key, value |-> threads[th].value, result |-> res,
     cache0 |-> cache, expiry0 |-> expiry, held |-> threads[th].held]

\* get: `now = time.time()` and
\* `if key in self.cache and now < self.expiry.get(key, 0):`
ThreadGetTest(th, k) ==
    /\ threads[th].pc = "idle"
    /\ threads' = [threads EXCEPT ![th] =
          [pc |-> IF IsFresh(cache, expiry, k, now) THEN "get_return" ELSE "get_if",
           key |-> k, value |-> None,
           expired |-> /\ k \in DOMAIN cache /\ k \in DOMAIN expiry /\ now >= expiry[k]
                       /\ \A o \in Threads :
                             ~(threads[o].pc = "set_expiry" /\ threads[o].key = k),
           held |-> NoSet]]
    /\ cacheOp' = NoOp
    /\ UNCHANGED <<cache, expiry, expiry_seconds, now, setAt>>

\* get: `return self.cache[key]`
ThreadGetReturn(th) ==
    /\ threads[th].pc = "get_return"
    /\ cacheOp' = ThreadReturn(th, "get", DictGet(cache, threads[th].key, KeyError))
    /\ threads' = [threads EXCEPT ![th] = NoCall]
    /\ UNCHANGED <<cache, expiry, expiry_seconds, now, setAt>>

\* get: `if key in self.cache:`
GetDeletesIfExpired(c, e, k, t) == k \in DOMAIN c /\ ~IsFresh(c, e, k, t)
GetDeletes(c, e, k, t) == k \in DOMAIN c

\* get: the test before the deletions; without an entry, `return None`
ThreadGetIf(th) ==
    /\ threads[th].pc = "get_if"
    /\ IF GetDeletes(cache, expiry, threads[th].key, now)
       THEN /\ threads' = [threads EXCEPT ![th].pc = "del_cache"]
            /\ cacheOp' = NoOp
       ELSE /\ threads' = [threads EXCEPT ![th] = NoCall]
            /\ cacheOp' = ThreadReturn(th, "get", None)
    /\ UNCHANGED <<cache, expiry, expiry_seconds, now, setAt>>

\* get: `del self.cache[key]`
ThreadDelCacheTolerant(th) ==
    /\ threads[th].pc = "del_cache"
    /\ cache' = DictDel(cache, threads[th].key)
    /\ threads' = [threads EXCEPT ![th].pc = "del_expiry"]
    /\ cacheOp' = NoOp
    /\ UNCHANGED <<expiry, expiry_seconds, now, setAt>>
ThreadDelCache(th) ==
    /\ threads[th].pc = "del_cache"
    /\ IF threads[th].key \in DOMAIN cache
       THEN /\ cache' = DictDel(cache, threads[th].key)
            /\ threads' = [threads EXCEPT ![th].pc = "del_expiry"]
            /\ cacheOp' = NoOp
       ELSE /\ cache' = cache
            /\ threads' = [threads EXCEPT ![th] = NoCall]
            /\ cacheOp' = ThreadReturn(th, "get", KeyError)
    /\ UNCHANGED <<expiry, expiry_seconds, now, setAt>>

\* get: `del self.expiry[key]` and `return None`
ThreadDelExpiry(th) ==
    LET k == threads[th].key IN
    /\ threads[th].pc = "del_expiry"
    /\ expiry' = DictDel(expiry, k)
    /\ cacheOp' = ThreadReturn(th, "get", IF k \in DOMAIN expiry THEN None ELSE KeyError)
    /\ threads' = [threads EXCEPT ![th] = NoCall]
    /\ setAt' = IF threads[th].held = NoSet THEN [setAt EXCEPT ![k] = NoSet] ELSE setAt
    /\ UNCHANGED <<cache, expiry_seconds, now>>

\* set: `self.cache[key] = value`
ThreadSetCache(th, k, v) ==
    /\ threads[th].pc = "idle"
    /\ cache' = DictPut(cache, k, v)
    /\ threads' = [threads EXCEPT ![th] =
                      [pc |-> "set_expiry", key |-> k, value |-> v,
                       expired |-> FALSE, held |-> NoSet]]
    /\ cacheOp' = NoOp
    /\ UNCHANGED <<expiry, expiry_seconds, now, setAt>>

\* set: `self.expiry[key] = time.time() + self.expiry_seconds`
ThreadSetExpiry(th) ==
    LET k == threads[th].key
        done == [t |-> now, v |-> threads[th].value, pt |-> setAt[k].t, pv |-> setAt[k].v]
    IN
    /\ threads[th].pc = "set_expiry"
    /\ expiry' = DictPut(expiry, k, ExpiryAt(now, expiry_seconds))
    /\ cacheOp' = ThreadReturn(th, "set", None)
    /\ setAt' = [setAt EXCEPT ![k] = done]
    /\ threads' = [o \in Threads |->
          IF o = th THEN NoCall
          ELSE IF threads[o].key = k /\ threads[o].expired
               THEN [threads[o] EXCEPT !.held = done]
               ELSE threads[o]]
    /\ UNCHANGED <<cache, expiry_seconds, now>>

InitThreads ==
    CacheInit(1..MaxTTL) /\ RetryIdle /\ ToolsIdle /\ OthersIdle /\ SERPER_API_KEY = FALSE

NextThreads ==
    \/ \E th \in Threads, k \in ThreadKeys :
          ThreadGetTest(th, k) /\ UNCHANGED <<retryVars, toolVars, simple, simple_cache, llmVars, appVars>>
    \/ \E th \in Threads : ThreadGetReturn(th) /\ UNCHANGED <<retryVars, toolVars, simple, simple_cache, llmVars, appVars>>
    \/ \E th \in Threads : ThreadGetIf(th) /\ UNCHANGED <<retryVars, toolVars, simple, simple_cache, llmVars, appVars>>
    \/ \E th \in Threads : ThreadDelCache(th) /\ UNCHANGED <<retryVars, toolVars, simple, simple_cache, llmVars, appVars>>
    \/ \E th \in Threads : ThreadDelExpiry(th) /\ UNCHANGED <<retryVars, toolVars, simple, simple_cache, llmVars, appVars>>
    \/ \E th \in Threads, k \in ThreadKeys, v \in Values :
          ThreadSetCache(th, k, v) /\ UNCHANGED <<retryVars, toolVars, simple, simple_cache, llmVars, appVars>>
    \/ \E th \in Threads : ThreadSetExpiry(th) /\ UNCHANGED <<retryVars, toolVars, simple, simple_cache, llmVars, appVars>>
    \/ Tick /\ UNCHANGED <<retryVars, toolVars, otherVars>>

SpecThreads == InitThreads /\ [][NextThreads]_vars

----------------------------------------------------------------------------
(* utils.retry *)

RECURSIVE Pow2(_)
Pow2(n) == IF n <= 0 THEN 1 ELSE 2 * Pow2(n - 1)

RECURSIVE SumSeq(_)
SumSeq(q) == IF q = << >> THEN 0 ELSE Head(q) + SumSeq(Tail(q))

\* The exception classes the model raises; all derive from Exception.
ExceptionClasses ==
    {"Exception", "ServiceUnavailableError", "ValidationError", "ApiKeyError",
     "TypeError", "ValueError", "KeyError", "AttributeError", "RequestException"}
IsInstance(cls, base) == cls = base \/ base = "Exception"

\* `except exceptions as e`: does the clause catch an exception of class cls?
CatchesEverything(cls, excs) == TRUE
Catches(cls, excs) == \E base \in excs : IsInstance(cls, base)

\* `while tries < max_tries`
LoopGuardInclusive(t, M) == t <= M
LoopGuard(t, M) == t < M

\* `if tries == max_tries: ... raise`
ExhaustedEarly(t, M) == t >= M - 1
ExhaustedLate(t, M) == t = M + 1
Exhausted(t, M) == t = M

\* `current_delay *= 2`
NextDelayLinear(d) == d + delay_seconds
NextDelay(d) == d * 2

NoOutcome == [kind |-> "none", val |-> None, at |-> 0]
Returned(v, i) == [kind |-> "return", val |-> v, at |-> i]
Raised(cls, i) == [kind |-> "raise", val |-> cls, at |-> i]

\* wrapper(*args, **kwargs): the locals before the loop
WrapperEnter ==
    /\ tries' = 0
    /\ current_delay' = delay_seconds'
    /\ pc' = "loop"
    /\ outcome' = NoOutcome
    /\ func_calls' = 0
    /\ sleeps' = << >>

\* One turn of `while tries < max_tries`, for a call of func that ends as res
\* (a Returned or a Raised): the loop test (falling out of the loop returns
\* None), `return func(*args, **kwargs)`, and the except clause with its
\* time.sleep(current_delay); current_delay *= 2
WrapperTurn(res) ==
    /\ pc = "loop"
    /\ IF ~LoopGuard(tries, max_tries)
       THEN /\ pc' = "done" /\ outcome' = Returned(None, 0)
            /\ UNCHANGED <<tries, current_delay, func_calls, sleeps, now>>
       ELSE /\ func_calls' = func_calls + 1
            /\ IF res.kind = "return"
               THEN /\ pc' = "done" /\ outcome' = res
                    /\ UNCHANGED <<tries, current_delay, sleeps, now>>
               ELSE IF Catches(res.val, exceptions)
               THEN /\ tries' = tries + 1
                    /\ IF Exhausted(tries + 1, max_tries)
                       THEN /\ pc' = "done" /\ outcome' = res
                            /\ UNCHANGED <<current_delay, sleeps, now>>
                       ELSE /\ pc' = "loop" /\ outcome' = outcome
                            /\ sleeps' = Append(sleeps, current_delay)
                            /\ now' = now + current_delay
                            /\ current_delay' = NextDelay(current_delay)
               ELSE /\ pc' = "done" /\ outcome' = res
                    /\ UNCHANGED <<tries, current_delay, sleeps, now>>
    /\ UNCHANGED <<max_tries, delay_seconds, exceptions, script>>

(* A scripted callable: its i-th invocation returns RetVal(i) when script[i] is
   "ok" and raises an exception of class script[i] otherwise. *)
ScriptEntries == {"ok", "ServiceUnavailableError", "ValueError"}
ExceptionTuples == {{"Exception"}, {"ServiceUnavailableError"}}
RetVal(i) == <<"r", i>>
ScriptResult(sc, i) ==
    IF sc[i] = "ok" THEN Returned(RetVal(i), i) ELSE Raised(sc[i], i)

\* retry(max_tries, delay_seconds, exceptions)(func) is called
RetryStart ==
    /\ pc = "idle"
    /\ max_tries' \in -1..MaxTriesBound
    /\ delay_seconds' \in 1..MaxDelay
    /\ exceptions' \in ExceptionTuples
    /\ script' \in [1..(MaxTriesBound + 1) -> ScriptEntries]
    /\ WrapperEnter
    /\ UNCHANGED now

ScriptCall ==
    /\ func_calls < Len(script)
    /\ WrapperTurn(ScriptResult(script, func_calls + 1))

InitRetry ==
    CacheInit({1}) /\ RetryIdle /\ ToolsIdle /\ OthersIdle /\ SERPER_API_KEY = FALSE

NextRetry ==
    \/ RetryStart /\ UNCHANGED <<cacheVars, toolVars, otherVars>>
    \/ ScriptCall /\ UNCHANGED <<cacheVars, toolVars, otherVars>>

SpecRetry == InitRetry /\ [][NextRetry]_vars

----------------------------------------------------------------------------
(* travel_info_simple.retry(max_tries, delay_seconds).  Its wrapper is run on
   the scripted callable next to the wrapper of utils.retry, both decorators
   given the same max_tries and delay_seconds. *)

SimpleEntered == [SimpleIdle EXCEPT !.pc = "loop"]

\* One turn of `while tries < max_tries` in travel_info_simple.retry, for a call
\* of func that ends as res: the loop test (falling out of the loop returns
\* None), `return func(*args, **kwargs)`, and
\* `except ServiceUnavailableError` with its time.sleep(delay_seconds)
SimpleTurn(res) ==
    /\ simple.pc = "loop"
    /\ IF ~(simple.tries < max_tries)
       THEN /\ simple' = [simple EXCEPT !.pc = "done", !.outcome = Returned(None, 0)]
            /\ now' = now
       ELSE IF res.kind = "return" \/ ~IsInstance(res.val, "ServiceUnavailableError")
       THEN /\ simple' = [simple EXCEPT !.pc = "done", !.outcome = res,
                                        !.func_calls = @ + 1]
            /\ now' = now
       ELSE IF simple.tries + 1 = max_tries
       THEN /\ simple' = [simple EXCEPT !.pc = "done", !.outcome = res,
                                        !.func_calls = @ + 1, !.tries = @ + 1]
            /\ now' = now
       ELSE /\ simple' = [simple EXCEPT !.func_calls = @ + 1, !.tries = @ + 1,
                                        !.sleeps = Append(@, delay_seconds)]
            /\ now' = now + delay_seconds

\* both decorated callables are called
BothStart ==
    /\ RetryStart
    /\ simple' = SimpleEntered
    /\ UNCHANGED <<cacheVars, toolVars, threads, simple_cache, llmVars, appVars>>

\* the wrapper of travel_info_simple.retry invokes the scripted callable
SimpleScriptCall ==
    /\ simple.func_calls < Len(script)
    /\ SimpleTurn(ScriptResult(script, simple.func_calls + 1))
    /\ UNCHANGED <<cacheVars, retryVars, toolVars, threads, simple_cache, llmVars, appVars>>

NextBothRetries ==
    \/ BothStart
    \/ ScriptCall /\ UNCHANGED <<cacheVars, toolVars, otherVars>>
    \/ SimpleScriptCall

SpecBothRetries == InitRetry /\ [][NextBothRetries]_vars

----------------------------------------------------------------------------
(* Python values the tools receive.  A str is a sequence of characters. *)

PyNone == [t |-> "none", s |-> << >>, n |-> 0]
PyStr(s) == [t |-> "str", s |-> s, n |-> 0]
PyInt(n) == [t |-> "int", s |-> << >>, n |-> n]

\* truth value of a Python object
Truthy(v) ==
    CASE v.t = "str" -> v.s # << >>
      [] v.t = "int" -> v.n # 0
      [] OTHER -> FALSE

Digits == {"0", "1", "2", "3", "4", "5", "6", "7", "8", "9"}
Letters ==
    {"a", "b", "c", "d", "e", "f", "g", "h", "i", "j", "k", "l", "m", "n", "o",
     "p", "q", "r", "s", "t", "u", "v", "w", "x", "y", "z",
     "A", "B", "C", "D", "E", "F", "G", "H", "I", "J", "K", "L", "M", "N", "O",
     "P", "Q", "R", "S", "T", "U", "V", "W", "X", "Y", "Z"}

\* sanitize_input: re.sub(r'[^\w\s\-\.,?!]', '', text)
KeptChar(ch) == ch \in Letters \cup Digits \cup {"_", " ", "-", ".", ",", "?", "!"}

\* sanitize_input(text): "" for a falsy argument, TypeError from re.sub for a
\* truthy argument that is not a str
sanitize_input(v) ==
    IF ~Truthy(v) THEN Returned(<< >>, 0)
    ELSE IF v.t = "str" THEN Returned(SelectSeq(v.s, KeptChar), 0)
    ELSE Raised("TypeError", 0)

DigitVal(ch) ==
    CASE ch = "0" -> 0 [] ch = "1" -> 1 [] ch = "2" -> 2 [] ch = "3" -> 3
      [] ch = "4" -> 4 [] ch = "5" -> 5 [] ch = "6" -> 6 [] ch = "7" -> 7
      [] ch = "8" -> 8 [] ch = "9" -> 9

IsDigits(q) == \A i \in 1..Len(q) : q[i] \in Digits

RECURSIVE NumVal(_)
NumVal(q) ==
    IF q = << >> THEN 0 ELSE 10 * NumVal(SubSeq(q, 1, Len(q) - 1)) + DigitVal(q[Len(q)])

IsLeap(y) == (y % 4 = 0 /\ y % 100 # 0) \/ y % 400 = 0
DaysInMonth(y, m) ==
    CASE m \in {4, 6, 9, 11} -> 30
      [] m = 2 -> IF IsLeap(y) THEN 29 ELSE 28
      [] OTHER -> 31

NoDate == [ok |-> FALSE, y |-> 0, m |-> 0, d |-> 0]

\* datetime.strptime(s, '%Y-%m-%d'): %Y is four digits, %m and %d one or two
\* digits (1..12, 1..31), the whole string must be consumed and the day must
\* exist; ok = FALSE stands for ValueError
strptime(s) ==
    LET dashes == {i \in 1..Len(s) : s[i] = "-"} IN
    IF Cardinality(dashes) # 2 THEN NoDate
    ELSE LET p1 == CHOOSE i \in dashes : \A j \in dashes : i <= j
             p2 == CHOOSE i \in dashes : \A j \in dashes : j <= i
             ys == SubSeq(s, 1, p1 - 1)
             ms == SubSeq(s, p1 + 1, p2 - 1)
             ds == SubSeq(s, p2 + 1, Len(s))
         IN IF /\ Len(ys) = 4 /\ IsDigits(ys)
               /\ Len(ms) \in {1, 2} /\ IsDigits(ms)
               /\ Len(ds) \in {1, 2} /\ IsDigits(ds)
               /\ NumVal(ys) >= 1
               /\ NumVal(ms) \in 1..12
               /\ NumVal(ds) >= 1
               /\ NumVal(ds) <= DaysInMonth(NumVal(ys), NumVal(ms))
            THEN [ok |-> TRUE, y |-> NumVal(ys), m |-> NumVal(ms), d |-> NumVal(ds)]
            ELSE NoDate

\* validate_date_format
validate_date_format(s) == strptime(s).ok

\* datetime comparison
DateOrd(dt) == dt.y * 10000 + dt.m * 100 + dt.d

\* validate_required_fields on already sanitized strings: the fields that are
\* absent or empty
validate_required_fields(data, required_fields) ==
    {f \in required_fields : f \notin DOMAIN data \/ data[f] = << >>}

----------------------------------------------------------------------------
(* What the tools have in common *)

\* str.lower()
UpperCase == <<"A", "B", "C", "D", "E", "F", "G", "H", "I", "J", "K", "L", "M",
               "N", "O", "P", "Q", "R", "S", "T", "U", "V", "W", "X", "Y", "Z">>
LowerCase == <<"a", "b", "c", "d", "e", "f", "g", "h", "i", "j", "k", "l", "m",
               "n", "o", "p", "q", "r", "s", "t", "u", "v", "w", "x", "y", "z">>
LowerChar(ch) ==
    IF \E i \in 1..26 : UpperCase[i] = ch
    THEN LowerCase[CHOOSE i \in 1..26 : UpperCase[i] = ch]
    ELSE ch
Lower(s) == [i \in 1..Len(s) |-> LowerChar(s[i])]
UpperChar(ch) ==
    IF \E i \in 1..26 : LowerCase[i] = ch
    THEN UpperCase[CHOOSE i \in 1..26 : LowerCase[i] = ch]
    ELSE ch
Upper(s) == [i \in 1..Len(s) |-> UpperChar(s[i])]

\* str.strip()
RECURSIVE LStrip(_)
LStrip(s) == IF s # << >> /\ Head(s) = " " THEN LStrip(Tail(s)) ELSE s
RECURSIVE RStrip(_)
RStrip(s) ==
    IF s # << >> /\ s[Len(s)] = " " THEN RStrip(SubSeq(s, 1, Len(s) - 1)) ELSE s
Strip(s) == RStrip(LStrip(s))

\* str(x) inside an f-string, for the values the model passes
RECURSIVE NatStr(_)
NatStr(n) ==
    LET d == CHOOSE ch \in Digits : DigitVal(ch) = n % 10 IN
    IF n < 10 THEN <<d>> ELSE NatStr(n \div 10) \o <<d>>
Format(v) ==
    CASE v.t = "str" -> v.s
      [] v.t = "int" -> IF v.n < 0 THEN <<"-">> \o NatStr(-v.n) ELSE NatStr(v.n)
      [] OTHER -> << "N", "o", "n", "e" >>

\* min(x, cap) for a keyword argument x: TypeError unless x is an int
MinWith(v, cap) ==
    IF v.t = "int" THEN Returned(IF v.n < cap THEN v.n ELSE cap, 0)
    ELSE Raised("TypeError", 0)

\* the results a tool hands back or stores: a kind, a size and the random content
NoData == [kind |-> "none", n |-> 0, id |-> 0]
Data(kind, n, id) == [kind |-> kind, n |-> n, id |-> id]
\* `if cached_result:` for a value that came out of the cache
DataTruthy(d) == d.kind = "info" \/ (d.kind # "none" /\ d.n > 0)

\* the dict execute returns; error_type None where the code sets no such key
Payload(status, error_type, message, data, cached) ==
    [status |-> status, error_type |-> error_type, message |-> message,
     data |-> data, cached |-> cached]
ValidationPayload(message) == Payload("error", "ValidationError", message, NoData, FALSE)

\* what one invocation of execute did: the failure it met ("none", "validation"
\* or the class raised inside it), its calls of the mock generator and of the
\* HTTP client, and its result
Effect(res, fail, gen, http, c, e, fc, l) ==
    [res |-> res, fail |-> fail, gen |-> gen, http |-> http,
     c |-> c, e |-> e, fc |-> fc, lru |-> l]
\* an invocation that ends before any call or state change
Quick(res, fail) == Effect(res, fail, 0, 0, cache, expiry, flight_cache, lru)

\* random.random() < 0.01 and the random content of the generated data
Outage == BOOLEAN
ContentIds == {1, 2}

----------------------------------------------------------------------------
(* flight_tool.FlightSearchTool *)

CabinClasses == {<< "e", "c", "o", "n", "o", "m", "y" >>, << "p", "r", "e", "m", "i", "u", "m", "_", "e", "c", "o", "n", "o", "m", "y" >>, << "b", "u", "s", "i", "n", "e", "s", "s" >>, << "f", "i", "r", "s", "t" >>}

\* _generate_mock_flights
FlightGenerate(origin, destination, date, return_date, max_results, cabin_class, outage, id) ==
    LET n == IF max_results < 10 THEN (IF max_results < 0 THEN 0 ELSE max_results) ELSE 10
        dep == strptime(date)
        ret == strptime(return_date)
    IN  IF outage THEN Raised("ServiceUnavailableError", 0)
        ELSE IF ~dep.ok THEN Raised("ValidationError", 0)
        ELSE IF n > 0 /\ cabin_class \notin CabinClasses THEN Raised("KeyError", 0)
        ELSE IF return_date # << >> /\ ~ret.ok THEN Raised("ValidationError", 0)
        ELSE IF return_date # << >> /\ DateOrd(ret) < DateOrd(dep)
             THEN Raised("ValidationError", 0)
        ELSE Returned(Data(IF return_date # << >> THEN "round_trip" ELSE "flights", n, id), 0)

\* the try block of execute
FlightTry(kw, outage, id) ==
    LET origin == sanitize_input(DictGet(kw, "origin", PyStr(<< >>)))
        destination == sanitize_input(DictGet(kw, "destination", PyStr(<< >>)))
        date == sanitize_input(DictGet(kw, "date", PyStr(<< >>)))
        return_date == sanitize_input(DictGet(kw, "return_date", PyStr(<< >>)))
        max_results == MinWith(DictGet(kw, "max_results", PyInt(20)), 30)
        sort_by == sanitize_input(DictGet(kw, "sort_by", PyStr(<< "p", "r", "i", "c", "e" >>)))
        price_range == sanitize_input(DictGet(kw, "price_range", PyStr(<< >>)))
        cabin_class == sanitize_input(DictGet(kw, "cabin_class", PyStr(<< "e", "c", "o", "n", "o", "m", "y" >>)))
        missing_fields == validate_required_fields(
            [origin |-> origin.val, destination |-> destination.val, date |-> date.val],
            {"origin", "destination", "date"})
        flights == FlightGenerate(origin.val, destination.val, date.val, return_date.val,
                                  max_results.val, Lower(cabin_class.val), outage, id)
    IN  IF \E i \in 1..8 : <<origin, destination, date, return_date, max_results, sort_by,
                             price_range, cabin_class>>[i].kind = "raise"
        THEN Quick(Raised("TypeError", 0), "TypeError")
        ELSE IF missing_fields # {}
        THEN Quick(Returned(ValidationPayload("Missing required fields"), 0), "validation")
        ELSE IF ~validate_date_format(date.val)
        THEN Quick(Returned(ValidationPayload("Invalid departure date format"), 0), "validation")
        ELSE IF return_date.val # << >> /\ ~validate_date_format(return_date.val)
        THEN Quick(Returned(ValidationPayload("Invalid return date format"), 0), "validation")
        ELSE IF flights.kind = "raise"
        THEN Effect(flights, flights.val, 1, 0, cache, expiry, flight_cache, lru)
        ELSE Effect(Returned(Payload("success", None, None, flights.val, FALSE), 0),
                    "none", 1, 0, cache, expiry, flight_cache, lru)

\* `except Exception as e` around the whole body: every exception becomes a payload
ExceptReraisesUnavailable(eff, message, with_type) == eff
ExceptException(eff, message, with_type) ==
    IF eff.res.kind = "raise"
    THEN [eff EXCEPT !.res = Returned(Payload("error",
                                  IF with_type THEN eff.res.val ELSE None,
                                  message, NoData, FALSE), 0)]
    ELSE eff

FlightSearchTool_execute(kw, outage, id) ==
    ExceptException(FlightTry(kw, outage, id), "Failed to search flights", TRUE)

----------------------------------------------------------------------------
(* travel_info_tool.TravelInfoTool *)

valid_info_types ==
    {<< "g", "e", "n", "e", "r", "a", "l" >>, << "v", "i", "s", "a" >>, << "w", "e", "a", "t", "h", "e", "r" >>, << "s", "a", "f", "e", "t", "y" >>, << "a", "t", "t", "r", "a", "c", "t", "i", "o", "n", "s" >>, << "t", "r", "a", "n", "s", "p", "o", "r", "t", "a", "t", "i", "o", "n" >>, << "c", "u", "l", "t", "u", "r", "e" >>}

\* the info types the description of info_type in function_schema lists
schema_info_types ==
    {<< "v", "i", "s", "a" >>,
     << "w", "e", "a", "t", "h", "e", "r" >>,
     << "a", "t", "t", "r", "a", "c", "t", "i", "o", "n", "s" >>,
     << "t", "r", "a", "n", "s", "p", "o", "r", "t", "a", "t", "i", "o", "n" >>,
     << "s", "a", "f", "e", "t", "y" >>,
     << "f", "o", "o", "d" >>,
     << "c", "u", "r", "r", "e", "n", "c", "y" >>}

\* `if info_type and info_type not in valid_info_types`
InfoTypeRejectedAnyCase(info_type) ==
    info_type # << >> /\ Lower(info_type) \notin valid_info_types
InfoTypeRejected(info_type) == info_type # << >> /\ info_type \notin valid_info_types

\* f"travel_info:{destination}:{info_type}"
TravelInfoKeyNoType(destination, info_type) ==
    << "t", "r", "a", "v", "e", "l", "_", "i", "n", "f", "o", ":" >> \o destination
TravelInfoKey(destination, info_type) ==
    << "t", "r", "a", "v", "e", "l", "_", "i", "n", "f", "o", ":" >> \o destination \o <<":">> \o info_type

\* _generate_mock_travel_info
TravelInfoGenerate(destination, info_type, outage, id) ==
    IF outage THEN Raised("ServiceUnavailableError", 0)
    ELSE Returned(Data("info", 0, id), 0)

\* the try block of execute
TravelInfoTry(kw, outage, id) ==
    LET destination == sanitize_input(DictGet(kw, "destination", PyStr(<< >>)))
        info_type == sanitize_input(DictGet(kw, "info_type", PyStr(<< "g", "e", "n", "e", "r", "a", "l" >>)))
        cache_key == TravelInfoKey(destination.val, info_type.val)
        hit == IsFresh(cache, expiry, cache_key, now) /\ DataTruthy(cache[cache_key])
        got == Evict(cache, expiry, cache_key, now)
        travel_info == TravelInfoGenerate(destination.val, info_type.val, outage, id)
        stored == SetMaps(got.c, got.e, cache_key, travel_info.val, now, expiry_seconds)
    IN  IF destination.kind = "raise" \/ info_type.kind = "raise"
        THEN Quick(Raised("TypeError", 0), "TypeError")
        ELSE IF destination.val = << >>
        THEN Quick(Returned(ValidationPayload("Missing destination parameter"), 0), "validation")
        ELSE IF InfoTypeRejected(info_type.val)
        THEN Quick(Returned(ValidationPayload("Invalid info_type"), 0), "validation")
        ELSE IF hit
        THEN Effect(Returned(Payload("success", None, None, cache[cache_key], TRUE), 0),
                    "none", 0, 0, got.c, got.e, flight_cache, lru)
        ELSE IF travel_info.kind = "raise"
        THEN Effect(travel_info, travel_info.val, 1, 0, got.c, got.e, flight_cache, lru)
        ELSE Effect(Returned(Payload("success", None, None, travel_info.val, FALSE), 0),
                    "none", 1, 0, stored.c, stored.e, flight_cache, lru)

TravelInfoTool_execute(kw, outage, id) ==
    ExceptException(TravelInfoTry(kw, outage, id), "Failed to get travel information", TRUE)

----------------------------------------------------------------------------
(* hotel_tool.HotelSearchTool *)

\* f"hotel_search:{destination}:{check_in}:{check_out}:{guests}:{max_price}"
HotelKey(destination, check_in, check_out, guests, max_price) ==
    << "h", "o", "t", "e", "l", "_", "s", "e", "a", "r", "c", "h", ":" >> \o destination \o <<":">> \o check_in \o <<":">> \o check_out
        \o <<":">> \o Format(guests) \o <<":">> \o Format(max_price)

\* the try block of execute; HotelSearchTool defines no _generate_mock_hotels,
\* so the attribute lookup on a cache miss raises AttributeError
HotelTry(kw) ==
    LET destination == sanitize_input(DictGet(kw, "destination", PyStr(<< >>)))
        check_in == sanitize_input(DictGet(kw, "check_in", PyStr(<< >>)))
        check_out == sanitize_input(DictGet(kw, "check_out", PyStr(<< >>)))
        guests == DictGet(kw, "guests", PyInt(2))
        max_price == DictGet(kw, "max_price", PyNone)
        amenities == DictGet(kw, "amenities", PyNone)
        max_results == MinWith(DictGet(kw, "max_results", PyInt(5)), 10)
        missing_fields == validate_required_fields(
            [destination |-> destination.val, check_in |-> check_in.val,
             check_out |-> check_out.val],
            {"destination", "check_in", "check_out"})
        cache_key == HotelKey(destination.val, check_in.val, check_out.val, guests, max_price)
        hit == IsFresh(cache, expiry, cache_key, now) /\ DataTruthy(cache[cache_key])
        got == Evict(cache, expiry, cache_key, now)
    IN  IF \E i \in 1..4 : <<destination, check_in, check_out, max_results>>[i].kind = "raise"
        THEN Quick(Raised("TypeError", 0), "TypeError")
        ELSE IF missing_fields # {}
        THEN Quick(Returned(ValidationPayload("Missing required fields"), 0), "validation")
        ELSE IF ~validate_date_format(check_in.val)
        THEN Quick(Returned(ValidationPayload("Invalid check-in date format"), 0), "validation")
        ELSE IF ~validate_date_format(check_out.val)
        THEN Quick(Returned(ValidationPayload("Invalid check-out date format"), 0), "validation")
        ELSE IF DateOrd(strptime(check_out.val)) <= DateOrd(strptime(check_in.val))
        THEN Quick(Returned(ValidationPayload("Check-out date must be after check-in date"), 0),
                   "validation")
        ELSE IF Truthy(amenities) /\ amenities.t # "str"
        THEN Quick(Returned(ValidationPayload("Invalid amenities format"), 0), "validation")
        ELSE IF hit
        THEN Effect(Returned(Payload("success", None, None, cache[cache_key], TRUE), 0),
                    "none", 0, 0, got.c, got.e, flight_cache, lru)
        ELSE Effect(Raised("AttributeError", 0), "AttributeError", 0, 0, got.c, got.e,
                    flight_cache, lru)

HotelSearchTool_execute(kw) ==
    ExceptException(HotelTry(kw), "Failed to search hotels", FALSE)

----------------------------------------------------------------------------
(* The HTTP client shared by web_search_tool and real_flight_tool *)

\* How http.post(...), raise_for_status() and response.json() can end:
\*   "RequestException"  the request or the status check raises
\*   "ValueError"        the body is not JSON
\*   "no_key"            JSON without the key the search type reads
\*   "empty"             the key holds an empty list
\*   "results"           the key holds a list of well-formed results
\*   "odd"               the key holds entries the result processing chokes on
HttpResponses == {"RequestException", "ValueError", "no_key", "empty", "results", "odd"}
ResultCount == 2

\* int(x) for a keyword argument
IntOf(v) ==
    CASE v.t = "int" -> Returned(v.n, 0)
      [] v.t = "str" -> IF Strip(v.s) # << >> /\ IsDigits(Strip(v.s))
                        THEN Returned(NumVal(Strip(v.s)), 0)
                        ELSE Raised("ValueError", 0)
      [] OTHER -> Raised("TypeError", 0)

\* `sub in s` for strings
Contains(s, sub) ==
    \E i \in 1..(Len(s) - Len(sub) + 1) : SubSeq(s, i, i + Len(sub) - 1) = sub

\* list[:k]
SliceLen(n, k) == IF k >= 0 THEN (IF k < n THEN k ELSE n) ELSE (IF n + k > 0 THEN n + k ELSE 0)

----------------------------------------------------------------------------
(* web_search_tool.WebSearchTool *)

WEB_CACHE_TTL == 3600

TravelTerms == {<< "t", "r", "a", "v", "e", "l" >>, << "t", "r", "i", "p" >>, << "v", "a", "c", "a", "t", "i", "o", "n" >>, << "h", "o", "t", "e", "l" >>, << "f", "l", "i", "g", "h", "t" >>, << "d", "e", "s", "t", "i", "n", "a", "t", "i", "o", "n" >>}

\* `query = f"travel {query}"` unless the query names a travel term
TravelQuery(query) ==
    IF \E term \in TravelTerms : Contains(Lower(query), term)
    THEN query ELSE << "t", "r", "a", "v", "e", "l", " " >> \o query

\* (query_hash, search_type, timestamp_bucket); md5 is taken as injective
WebCacheKey(query, num_results, search_type, location, language, recent, t) ==
    <<TravelQuery(query) \o <<"|">> \o Format(PyInt(num_results)) \o <<"|">> \o search_type
        \o <<"|">> \o Format(location) \o <<"|">> \o Format(language) \o <<"|">> \o Format(recent),
      search_type, t \div WEB_CACHE_TTL>>

\* _cached_search under lru_cache: the body returns ([], time.time()), so the
\* results of an entry are always the empty list; l maps a key to that time
CachedSearch(l, key, t) ==
    IF key \in DOMAIN l THEN [results |-> NoData, cache_time |-> l[key], lru |-> l]
    ELSE [results |-> NoData, cache_time |-> t, lru |-> DictPut(l, key, t)]

\* "Store results in cache": cache_clear(), a fresh _cached_search entry, then
\* __wrapped__.__closure__[0] of a function without closure, a TypeError the
\* except clause swallows
StoreResults(l, key, t) == DictPut(EmptyDict, key, t)

\* _perform_search
PerformSearch(query, num_results, search_type, location, language, recent, response) ==
    LET key == WebCacheKey(query, num_results, search_type, location, language, recent, now)
        looked == CachedSearch(lru, key, now)
        n == SliceLen(ResultCount, num_results)
    IN  IF DataTruthy(looked.results) /\ now - looked.cache_time < WEB_CACHE_TTL
        THEN [results |-> looked.results, error |-> FALSE, http |-> 0, lru |-> looked.lru]
        ELSE CASE response \in {"RequestException", "ValueError", "odd"} ->
                    [results |-> Data("results", 1, 0), error |-> TRUE, http |-> 1,
                     lru |-> looked.lru]
               [] response = "no_key" ->
                    [results |-> Data("results", 1, 0), error |-> FALSE, http |-> 1,
                     lru |-> looked.lru]
               [] response = "empty" ->
                    [results |-> Data("results", 0, 0), error |-> FALSE, http |-> 1,
                     lru |-> StoreResults(looked.lru, key, now)]
               [] OTHER ->
                    [results |-> Data("results", n, 1), error |-> FALSE, http |-> 1,
                     lru |-> StoreResults(looked.lru, key, now)]

\* the try block of execute
WebSearchTry(kw, response) ==
    LET query == DictGet(kw, "query", PyNone)
        num == IntOf(DictGet(kw, "num_results", PyInt(3)))
        num_results == IF num.val < 10 THEN num.val ELSE 10
        search_type == DictGet(kw, "search_type", PyStr(<< "w", "e", "b" >>))
        location == DictGet(kw, "location", PyNone)
        language == DictGet(kw, "language", PyNone)
        recent == DictGet(kw, "recent", PyStr(<< "F", "a", "l", "s", "e" >>))
        found == PerformSearch(query.s, num_results, Lower(search_type.s), location,
                               language, recent, response)
    IN  IF ~Truthy(query) \/ query.t # "str" \/ Strip(query.s) = << >>
        THEN Quick(Returned(Payload("error", None, "A valid query is required", NoData, FALSE), 0),
                   "validation")
        ELSE IF num.kind = "raise" THEN Quick(num, num.val)
        ELSE IF search_type.t # "str" THEN Quick(Raised("AttributeError", 0), "AttributeError")
        ELSE IF ~SERPER_API_KEY
        THEN Quick(Returned(Payload("error", None, "Serper API key is not configured",
                                    NoData, FALSE), 0), "configuration")
        ELSE IF ~DataTruthy(found.results) \/ found.error
        THEN Effect(Returned(Payload("error", None, "Search failed", NoData, FALSE), 0),
                    IF found.error THEN response ELSE "no results", 0, found.http,
                    cache, expiry, flight_cache, found.lru)
        ELSE Effect(Returned(Payload("success", None, None, found.results, FALSE), 0),
                    "none", 0, found.http, cache, expiry, flight_cache, found.lru)

WebSearchTool_execute(kw, response) ==
    ExceptException(WebSearchTry(kw, response), "Failed to perform search", FALSE)

----------------------------------------------------------------------------
(* real_flight_tool.RealFlightSearchTool *)

FLIGHT_CACHE_TTL == 1800

\* .strip().upper() of a keyword argument: AttributeError unless a str
StripUpper(v) ==
    IF v.t = "str" THEN Returned(Upper(Strip(v.s)), 0) ELSE Raised("AttributeError", 0)

\* md5 of f"{origin}-{destination}-{date_period}-{num_results}", taken as injective
FlightCacheKey(origin, destination, date_period, num_results) ==
    origin \o <<"-">> \o destination \o <<"-">> \o Format(date_period) \o <<"-">>
        \o Format(PyInt(num_results))

\* `cache_key in flight_cache and current_time - timestamp < CACHE_TTL`
FlightCacheHitNoTTL(fc, key, t) == key \in DOMAIN fc
FlightCacheHit(fc, key, t) == key \in DOMAIN fc /\ t - fc[key].timestamp < FLIGHT_CACHE_TTL

\* _search_flights: the organic results (kind "odd" when their fields are not
\* what _structure_flight_data expects), or the exception of the HTTP call
SearchFlights(origin, destination, date_period, num_results, response) ==
    LET key == FlightCacheKey(origin, destination, date_period, num_results) IN
    IF FlightCacheHit(flight_cache, key, now)
    THEN [res |-> Returned(flight_cache[key].data, 0), http |-> 0, fc |-> flight_cache]
    ELSE CASE response \in {"RequestException", "ValueError"} ->
                [res |-> Raised(response, 0), http |-> 1, fc |-> flight_cache]
           [] response \in {"no_key", "empty"} ->
                [res |-> Returned(Data("organic", 0, 0), 0), http |-> 1, fc |-> flight_cache]
           [] OTHER ->
                LET data == Data(IF response = "odd" THEN "odd" ELSE "organic", ResultCount, 1)
                IN [res |-> Returned(data, 0), http |-> 1,
                    fc |-> DictPut(flight_cache, key, [timestamp |-> now, data |-> data])]

\* the try blocks of execute
RealFlightTry(kw, response) ==
    LET origin == StripUpper(DictGet(kw, "origin", PyStr(<< >>)))
        destination == StripUpper(DictGet(kw, "destination", PyStr(<< >>)))
        date_period == DictGet(kw, "date_period", PyStr(<< "n", "e", "x", "t", " ", "w", "e", "e", "k" >>))
        num_results == MinWith(DictGet(kw, "num_results", PyInt(5)), 10)
        found == SearchFlights(origin.val, destination.val, date_period, num_results.val,
                               response)
    IN  IF origin.kind = "raise" \/ destination.kind = "raise"
        THEN Quick(Raised("AttributeError", 0), "AttributeError")
        ELSE IF num_results.kind = "raise" THEN Quick(num_results, "TypeError")
        ELSE IF origin.val = << >> \/ destination.val = << >>
        THEN Quick(Returned(Payload("error", None,
                       "Both origin and destination airport codes are required", NoData, FALSE), 0),
                   "validation")
        ELSE IF ~SERPER_API_KEY
        THEN Quick(Returned(Payload("error", None, "Serper API key is not configured",
                                    NoData, FALSE), 0), "configuration")
        ELSE IF found.res.kind = "raise"
        THEN Effect(Returned(Payload("error", None, "Failed to retrieve flight information",
                                     NoData, FALSE), 0),
                    found.res.val, 0, found.http, cache, expiry, found.fc, lru)
        ELSE IF found.res.val.n = 0
        THEN Effect(Returned(Payload("info", None, "No flights found", NoData, FALSE), 0),
                    "none", 0, found.http, cache, expiry, found.fc, lru)
        ELSE IF found.res.val.kind = "odd"
        THEN Effect(Returned(Payload("error", None, "Failed to retrieve flight information",
                                     NoData, FALSE), 0),
                    "TypeError", 0, found.http, cache, expiry, found.fc, lru)
        ELSE Effect(Returned(Payload("success", None, None,
                                     Data("flights", found.res.val.n, found.res.val.id), FALSE), 0),
                    "none", 0, found.http, cache, expiry, found.fc, lru)

RealFlightSearchTool_execute(kw, response) ==
    ExceptException(RealFlightTry(kw, response), "An unexpected error occurred", FALSE)

----------------------------------------------------------------------------
(* Calls of the tools.  FlightSearchTool, TravelInfoTool and HotelSearchTool
   decorate execute with @retry(max_tries=3, delay_seconds=2,
   exceptions=(ServiceUnavailableError,)); WebSearchTool and
   RealFlightSearchTool do not. *)

MaxRequests == 2      \* calls of execute in one run of the model

ToolMaxTries == 3
ToolDelaySeconds == 2
TRAVEL_INFO_TTL == 86400

DecoratedTools == {"flight", "travel_info", "hotel"}
PlainTools == {"web", "real_flight"}
\* the instants at which a later call is made: just before and when an entry of
\* flight_cache, and when an entry of travel_info_cache (and of the web cache),
\* has expired
Instants == {FLIGHT_CACHE_TTL - 1, FLIGHT_CACHE_TTL, TRAVEL_INFO_TTL}

\* Keyword arguments: a dict holds the keys that are passed.
Dict1(k1, v1) == DictPut(EmptyDict, k1, v1)
Merge(d1, d2) == [k \in (DOMAIN d1) \cup (DOMAIN d2) |-> IF k \in DOMAIN d2 THEN d2[k] ELSE d1[k]]

\* the dict d with the keys of ch added or replaced, for each ch of chs
Vary(d, chs) == {Merge(d, ch) : ch \in chs}
\* the dict d without key k
Without(d, k) == [x \in (DOMAIN d) \ {k} |-> d[x]]

FlightBase ==
    Merge(Merge(Dict1("origin", PyStr(<< "J", "F", "K" >>)), Dict1("destination", PyStr(<< "L", "H", "R" >>))),
          Dict1("date", PyStr(<< "2", "0", "2", "5", "-", "0", "5", "-", "1", "5" >>)))
FlightKwargs ==
    {FlightBase, EmptyDict, Without(FlightBase, "origin"), Without(FlightBase, "date"),
     Merge(Without(FlightBase, "origin"), Dict1("max_results", PyNone))}
    \cup Vary(FlightBase,
              {Dict1("origin", PyStr(<< "$" >>)), Dict1("origin", PyInt(5)),
               Dict1("destination", PyStr(<< "L", ";", "H", "R" >>)), Dict1("destination", PyNone),
               Dict1("date", PyStr(<< "1", "5", "/", "0", "5", "/", "2", "0", "2", "5" >>)), Dict1("date", PyStr(<< "2", "0", "2", "5", "-", "0", "2", "-", "3", "0" >>)),
               Dict1("date", PyStr(<< "2", "0", "2", "5", "-", "5", "-", "1" >>)),
               Dict1("return_date", PyStr(<< "2", "0", "2", "5", "-", "0", "5", "-", "1", "0" >>)),
               Dict1("return_date", PyStr(<< "2", "0", "2", "5", "-", "0", "5", "-", "1", "5" >>)),
               Dict1("return_date", PyStr(<< "2", "0", "2", "5", "-", "0", "5", "-", "2", "0" >>)),
               Dict1("return_date", PyStr(<< "M", "a", "y" >>)),
               Dict1("max_results", PyInt(0)), Dict1("max_results", PyNone),
               Dict1("cabin_class", PyStr(<< "B", "u", "s", "i", "n", "e", "s", "s" >>)),
               Dict1("cabin_class", PyStr(<< "l", "u", "x", "u", "r", "y" >>)),
               Merge(Dict1("cabin_class", PyStr(<< "l", "u", "x", "u", "r", "y" >>)), Dict1("max_results", PyInt(0)))})

TravelInfoBase == Dict1("destination", PyStr(<< "R", "o", "m", "e" >>))
TravelInfoKwargs ==
    {TravelInfoBase, EmptyDict}
    \cup Vary(TravelInfoBase,
              {Dict1("destination", PyStr(<< "R", "o", "$", "m", "e" >>)), Dict1("destination", PyStr(<< "$" >>)),
               Dict1("destination", PyInt(5)),
               Dict1("info_type", PyStr(<< "v", "i", "s", "a" >>)), Dict1("info_type", PyStr(<< "v", "i", "$", "s", "a" >>)),
               Dict1("info_type", PyStr(<< "f", "o", "o", "d" >>)), Dict1("info_type", PyStr(<< "V", "i", "s", "a" >>)),
               Dict1("info_type", PyStr(<< >>)), Dict1("info_type", PyNone),
               Dict1("info_type", PyInt(7)),
               Merge(Dict1("destination", PyStr(<< "$" >>)), Dict1("info_type", PyStr(<< "f", "o", "o", "d" >>)))})

HotelBase ==
    Merge(Merge(Dict1("destination", PyStr(<< "R", "o", "m", "e" >>)), Dict1("check_in", PyStr(<< "2", "0", "2", "5", "-", "0", "5", "-", "1", "5" >>))),
          Dict1("check_out", PyStr(<< "2", "0", "2", "5", "-", "0", "5", "-", "2", "0" >>)))
HotelKwargs ==
    {HotelBase, EmptyDict, Without(HotelBase, "check_out")}
    \cup Vary(HotelBase,
              {Dict1("destination", PyNone), Dict1("check_in", PyStr(<< "M", "a", "y" >>)),
               Dict1("check_out", PyStr(<< "2", "0", "2", "5", "-", "0", "5", "-", "1", "5" >>)), Dict1("check_out", PyStr(<< "2", "0", "2", "5", "-", "0", "5", "-", "3", "2" >>)),
               Dict1("amenities", PyStr(<< "p", "o", "o", "l", ",", "w", "i", "f", "i" >>)), Dict1("amenities", PyInt(5)),
               Dict1("guests", PyInt(3)), Dict1("max_price", PyInt(200)),
               Dict1("max_results", PyNone)})

WebBase == Dict1("query", PyStr(<< "r", "o", "m", "e", " ", "h", "o", "t", "e", "l", "s" >>))
WebKwargs ==
    {WebBase, EmptyDict}
    \cup Vary(WebBase,
              {Dict1("query", PyStr(<< "r", "o", "m", "e" >>)), Dict1("query", PyStr(<< " " >>)),
               Dict1("query", PyInt(5)),
               Dict1("num_results", PyStr(<< "2" >>)), Dict1("num_results", PyStr(<< "m", "a", "n", "y" >>)),
               Dict1("num_results", PyNone), Dict1("num_results", PyInt(0)),
               Dict1("search_type", PyStr(<< "N", "e", "w", "s" >>)), Dict1("search_type", PyNone)})

RealFlightBase == Merge(Dict1("origin", PyStr(<< " ", "j", "e", "d" >>)), Dict1("destination", PyStr(<< "r", "u", "h" >>)))
RealFlightKwargs ==
    {RealFlightBase, EmptyDict}
    \cup Vary(RealFlightBase,
              {Dict1("origin", PyNone), Dict1("destination", PyStr(<< " " >>)),
               Dict1("num_results", PyInt(3)), Dict1("num_results", PyNone),
               Dict1("date_period", PyStr(<< "M", "a", "y" >>))})

KwargsOf(t) ==
    CASE t = "flight" -> FlightKwargs
      [] t = "travel_info" -> TravelInfoKwargs
      [] t = "hotel" -> HotelKwargs
      [] t = "web" -> WebKwargs
      [] t = "real_flight" -> RealFlightKwargs

\* one invocation of tool t's execute
Execute(t, kw, outage, id, response) ==
    CASE t = "flight" -> FlightSearchTool_execute(kw, outage, id)
      [] t = "travel_info" -> TravelInfoTool_execute(kw, outage, id)
      [] t = "hotel" -> HotelSearchTool_execute(kw)
      [] t = "web" -> WebSearchTool_execute(kw, response)
      [] t = "real_flight" -> RealFlightSearchTool_execute(kw, response)

Attempt(eff) == [fail |-> eff.fail, gen |-> eff.gen, http |-> eff.http]

\* tool.execute(tool_context, **kwargs) is called on a decorated tool
ToolStart ==
    /\ pc \in {"idle", "done"}
    /\ requests < MaxRequests
    /\ requests' = requests + 1
    /\ tool' \in DecoratedTools
    /\ kwargs' \in KwargsOf(tool')
    /\ attempts' = << >>
    /\ max_tries' = ToolMaxTries
    /\ delay_seconds' = ToolDelaySeconds
    /\ exceptions' = {"ServiceUnavailableError"}
    /\ script' = << >>
    /\ WrapperEnter
    /\ UNCHANGED <<cacheVars, now, SERPER_API_KEY, flight_cache, lru, otherVars>>

\* the wrapper invokes execute
ToolCall ==
    /\ tool \in DecoratedTools
    /\ pc = "loop"
    /\ \E outage \in Outage, id \in ContentIds :
        \E eff \in {Execute(tool, kwargs, outage, id, "results")} :
        /\ WrapperTurn([eff.res EXCEPT !.at = func_calls + 1])
        /\ IF LoopGuard(tries, max_tries)
           THEN /\ cache' = eff.c
                /\ expiry' = eff.e
                /\ attempts' = Append(attempts, Attempt(eff))
           ELSE UNCHANGED <<cache, expiry, attempts>>
    /\ UNCHANGED <<otherVars, expiry_seconds, cacheOp, setAt, tool, kwargs, requests,
                   SERPER_API_KEY, flight_cache, lru>>

\* tool.execute(tool_context, **kwargs) on a tool without the decorator
PlainCall ==
    /\ pc \in {"idle", "done"}
    /\ requests < MaxRequests
    /\ requests' = requests + 1
    /\ tool' \in PlainTools
    /\ kwargs' \in KwargsOf(tool')
    /\ \E response \in HttpResponses :
        \E eff \in {Execute(tool', kwargs', FALSE, 1, response)} :
        /\ outcome' = [eff.res EXCEPT !.at = 1]
        /\ flight_cache' = eff.fc
        /\ lru' = eff.lru
        /\ attempts' = <<Attempt(eff)>>
    /\ pc' = "done"
    /\ func_calls' = 1
    /\ sleeps' = << >>
    /\ max_tries' = 0 /\ delay_seconds' = 0 /\ exceptions' = {}
    /\ tries' = 0 /\ current_delay' = 0 /\ script' = << >>
    /\ UNCHANGED <<cacheVars, now, SERPER_API_KEY, otherVars>>

\* time passes between two calls
AdvanceClock ==
    /\ pc \in {"idle", "done"}
    /\ requests < MaxRequests
    /\ \E t \in Instants :
        /\ now < t
        /\ now' = t
    /\ UNCHANGED <<cacheVars, retryVars, toolVars, otherVars>>

InitTools ==
    /\ CacheInit({TRAVEL_INFO_TTL})
    /\ RetryIdle
    /\ ToolsIdle
    /\ OthersIdle
    /\ SERPER_API_KEY \in BOOLEAN

NextTools ==
    \/ ToolStart
    \/ ToolCall
    \/ PlainCall
    \/ AdvanceClock

SpecTools == InitTools /\ [][NextTools]_vars

----------------------------------------------------------------------------
(* travel_info_simple.TravelInfoTool, the travel-information tool that
   agent.py imports.  Its execute is decorated with @retry(max_tries=3) of the
   same module and keeps its results in a SimpleCache.  An entry of
   simple_cache is the stored value; its field at, the time of the set, is
   kept for the claims only: SimpleCache stores no time. *)

SimpleMaxTries == 3
SimpleDelaySeconds == 1

\* f"travel_info:{destination}:{info_type}"
SimpleKey(destination, info_type) ==
    << "t", "r", "a", "v", "e", "l", "_", "i", "n", "f", "o", ":" >>
        \o Format(destination) \o <<":">> \o Format(info_type)

\* _generate_mock_travel_info: `destination + " " + ...` needs a str
SimpleGenerate(destination, info_type, outage, id) ==
    IF outage THEN Raised("ServiceUnavailableError", 0)
    ELSE IF destination.t # "str" /\ info_type.t = "str"
            /\ info_type.s \in {<< "g", "e", "n", "e", "r", "a", "l" >>,
                                << "w", "e", "a", "t", "h", "e", "r" >>,
                                << "s", "a", "f", "e", "t", "y" >>}
    THEN Raised("TypeError", 0)
    ELSE Returned(Data("info", 0, id), 0)

\* SimpleCache.get: self.cache.get(key)
SimpleCache_get(sc, key) == IF key \in DOMAIN sc THEN sc[key].data ELSE NoData
\* SimpleCache.set: self.cache[key] = value
SimpleCache_set(sc, key, value, t) == DictPut(sc, key, [data |-> value, at |-> t])

\* the try block of execute
SimpleTry(kw, outage, id) ==
    LET destination == DictGet(kw, "destination", PyStr(<< >>))
        info_type == DictGet(kw, "info_type", PyStr(<< "g", "e", "n", "e", "r", "a", "l" >>))
        cache_key == SimpleKey(destination, info_type)
        cached_result == SimpleCache_get(simple_cache, cache_key)
        travel_info == SimpleGenerate(destination, info_type, outage, id)
        done(res, fail, gen, sc) == [res |-> res, fail |-> fail, gen |-> gen, http |-> 0, sc |-> sc]
    IN  IF ~Truthy(destination)
        THEN done(Returned(ValidationPayload("Missing destination parameter"), 0),
                  "validation", 0, simple_cache)
        ELSE IF Truthy(info_type)
                /\ ~(info_type.t = "str" /\ info_type.s \in valid_info_types)
        THEN done(Returned(ValidationPayload("Invalid info_type"), 0),
                  "validation", 0, simple_cache)
        ELSE IF DataTruthy(cached_result)
        THEN done(Returned(Payload("success", None, None, cached_result, TRUE), 0),
                  "none", 0, simple_cache)
        ELSE IF travel_info.kind = "raise"
        THEN done(travel_info, travel_info.val, 1, simple_cache)
        ELSE done(Returned(Payload("success", None, None, travel_info.val, FALSE), 0),
                  "none", 1, SimpleCache_set(simple_cache, cache_key, travel_info.val, now))

TravelInfoSimple_execute(kw, outage, id) ==
    ExceptException(SimpleTry(kw, outage, id), "Failed to get travel information", TRUE)

\* tool.execute(tool_context, **kwargs) is called
SimpleToolStart ==
    /\ simple.pc \in {"idle", "done"}
    /\ requests < MaxRequests
    /\ requests' = requests + 1
    /\ tool' = "travel_info_simple"
    /\ kwargs' \in TravelInfoKwargs
    /\ attempts' = << >>
    /\ max_tries' = SimpleMaxTries
    /\ delay_seconds' = SimpleDelaySeconds
    /\ simple' = SimpleEntered
    /\ UNCHANGED <<cacheVars, now, exceptions, tries, current_delay, pc, outcome, script,
                   func_calls, sleeps, SERPER_API_KEY, flight_cache, lru, threads,
                   simple_cache, llmVars, appVars>>

\* the wrapper invokes execute
SimpleToolCall ==
    /\ tool = "travel_info_simple"
    /\ simple.pc = "loop"
    /\ \E outage \in Outage, id \in ContentIds :
        \E eff \in {TravelInfoSimple_execute(kwargs, outage, id)} :
        /\ SimpleTurn([eff.res EXCEPT !.at = simple.func_calls + 1])
        /\ IF simple.tries < max_tries
           THEN /\ simple_cache' = eff.sc
                /\ attempts' = Append(attempts, Attempt(eff))
           ELSE UNCHANGED <<simple_cache, attempts>>
    /\ UNCHANGED <<cacheVars, retryVars, tool, kwargs, requests, SERPER_API_KEY,
                   flight_cache, lru, threads, llmVars, appVars>>

\* time passes between two calls
SimpleAdvanceClock ==
    /\ simple.pc \in {"idle", "done"}
    /\ AdvanceClock

NextSimpleTool ==
    \/ SimpleToolStart
    \/ SimpleToolCall
    \/ SimpleAdvanceClock

SpecSimpleTool == InitTools /\ [][NextSimpleTool]_vars

----------------------------------------------------------------------------
(* Model selection: llm_adapter.create_adk_model and the loading of the
   module working_agent.agent.  environ says which environment variables are
   set to a non-empty value and which constructors raise; llm is the position
   of the code and what it has produced. *)

EnvNames == {"DEEPSEEK_API_KEY", "DEEPSEEK_API_BASE", "GROQ_API_KEY", "GROQ_API_BASE",
             "OPENAI_API_KEY"}
Constructors == {"openai.OpenAI", "LiteLlm deepseek", "LiteLlm groq", "LlmAgent"}
Environments == [set : SUBSET EnvNames, raising : SUBSET Constructors]

DEEPSEEK_MODELS ==
    [chat |-> << "d", "e", "e", "p", "s", "e", "e", "k", "-", "c", "h", "a", "t" >>, coder |-> << "d", "e", "e", "p", "s", "e", "e", "k", "-", "c", "o", "d", "e", "r" >>]
FALLBACK_MODELS ==
    [groq |-> << "g", "r", "o", "q", "/", "l", "l", "a", "m", "a", "3", "-", "8", "b", "-", "8", "1", "9", "2" >>, openai |-> << "g", "p", "t", "-", "3", ".", "5", "-", "t", "u", "r", "b", "o" >>]
ModelTypes == {"chat", "coder", "vision"}

\* CustomOpenAIModel._setup_client with configure_openai_for_deepseek
OpenAISetup(env) == "DEEPSEEK_API_KEY" \in env.set /\ "openai.OpenAI" \notin env.raising

\* CustomLiteLLMModel._setup_client: `"groq" in name.lower() and GROQ_API_KEY`,
\* `elif "openai" in name.lower() and OPENAI_API_KEY`, else False
LiteLLMSetup(env, name) ==
    IF Contains(Lower(name), << "g", "r", "o", "q" >>) /\ "GROQ_API_KEY" \in env.set THEN TRUE
    ELSE IF Contains(Lower(name), << "o", "p", "e", "n", "a", "i" >>) /\ "OPENAI_API_KEY" \in env.set THEN TRUE
    ELSE FALSE

\* CustomLiteLLMModel() followed by set_model_name(name)
LiteLLMModel(env, name) ==
    [class |-> "CustomLiteLLMModel", name |-> name, setup |-> LiteLLMSetup(env, name)]

\* create_adk_model(model_type) is called: the model type is normalised,
\* CustomOpenAIModel() is built and named; it is returned when set up
AdkDeepSeek ==
    /\ llm.pc = "idle"
    /\ \E given \in ModelTypes :
        LET model_type == IF given \in DOMAIN DEEPSEEK_MODELS THEN given ELSE "chat"
            model == [class |-> "CustomOpenAIModel", name |-> DEEPSEEK_MODELS[model_type],
                      setup |-> OpenAISetup(environ)]
        IN llm' = IF model.setup
                  THEN [pc |-> "adk_done", model_type |-> model_type, model |-> model,
                        error |-> None]
                  ELSE [llm EXCEPT !.pc = "adk_groq", !.model_type = model_type]
    /\ UNCHANGED environ

\* "Try Groq as fallback"
AdkGroq ==
    /\ llm.pc = "adk_groq"
    /\ LET groq_model == LiteLLMModel(environ, FALLBACK_MODELS.groq) IN
       llm' = IF "GROQ_API_KEY" \in environ.set /\ groq_model.setup
              THEN [llm EXCEPT !.pc = "adk_done", !.model = groq_model]
              ELSE [llm EXCEPT !.pc = "adk_openai"]
    /\ UNCHANGED environ

\* "Try OpenAI as last resort", and `return None`
AdkOpenAI ==
    /\ llm.pc = "adk_openai"
    /\ LET openai_model == LiteLLMModel(environ, FALLBACK_MODELS.openai) IN
       llm' = IF "OPENAI_API_KEY" \in environ.set /\ openai_model.setup
              THEN [llm EXCEPT !.pc = "adk_done", !.model = openai_model]
              ELSE [llm EXCEPT !.pc = "adk_done", !.model = NoModel]
    /\ UNCHANGED environ

\* working_agent.agent is imported: "Validate environment variables"
WorkingAgentValidate ==
    /\ llm.pc = "idle"
    /\ llm' = IF "DEEPSEEK_API_KEY" \notin environ.set
              THEN [llm EXCEPT !.pc = "wa_done", !.error = "ValueError"]
              ELSE [llm EXCEPT !.pc = "wa_deepseek"]
    /\ UNCHANGED environ

\* the model LiteLlm(model=name) of working_agent
LiteLlm(name) == [class |-> "LiteLlm", name |-> name, setup |-> TRUE]

\* create_fallback_model: "Try DeepSeek first (primary model)"
WorkingAgentDeepSeek ==
    /\ llm.pc = "wa_deepseek"
    /\ llm' = IF {"DEEPSEEK_API_KEY", "DEEPSEEK_API_BASE"} \subseteq environ.set
                 /\ "LiteLlm deepseek" \notin environ.raising
              THEN [llm EXCEPT !.pc = "wa_agent", !.model = LiteLlm(<< "d", "e", "e", "p", "s", "e", "e", "k", "/", "d", "e", "e", "p", "s", "e", "e", "k", "-", "c", "h", "a", "t" >>)]
              ELSE [llm EXCEPT !.pc = "wa_groq"]
    /\ UNCHANGED environ

\* create_fallback_model: "Fall back to Groq", else raise ValueError, which
\* the module-level except logs and raises again
WorkingAgentGroq ==
    /\ llm.pc = "wa_groq"
    /\ llm' = IF {"GROQ_API_KEY", "GROQ_API_BASE"} \subseteq environ.set
                 /\ "LiteLlm groq" \notin environ.raising
              THEN [llm EXCEPT !.pc = "wa_agent", !.model = LiteLlm(<< "g", "r", "o", "q", "/", "l", "l", "a", "m", "a", "3", "-", "7", "0", "b", "-", "8", "1", "9", "2" >>)]
              ELSE [llm EXCEPT !.pc = "wa_done", !.error = "ValueError"]
    /\ UNCHANGED environ

\* root_agent = LlmAgent(model=fallback_model, ...)
WorkingAgentRootAgent ==
    /\ llm.pc = "wa_agent"
    /\ llm' = IF "LlmAgent" \in environ.raising
              THEN [llm EXCEPT !.pc = "wa_done", !.model = NoModel, !.error = "Exception"]
              ELSE [llm EXCEPT !.pc = "wa_done"]
    /\ UNCHANGED environ

InitModels ==
    /\ CacheInit({1}) /\ RetryIdle /\ ToolsIdle /\ SERPER_API_KEY = FALSE
    /\ ThreadsIdle /\ simple = SimpleIdle /\ simple_cache = EmptyDict
    /\ app = AppIdle /\ sorting = SortIdle
    /\ environ \in Environments
    /\ llm = LlmIdle

NextModels ==
    \/ AdkDeepSeek /\ UNCHANGED <<cacheVars, now, retryVars, toolVars, threads, simple, simple_cache, appVars>>
    \/ AdkGroq /\ UNCHANGED <<cacheVars, now, retryVars, toolVars, threads, simple, simple_cache, appVars>>
    \/ AdkOpenAI /\ UNCHANGED <<cacheVars, now, retryVars, toolVars, threads, simple, simple_cache, appVars>>
    \/ WorkingAgentValidate /\ UNCHANGED <<cacheVars, now, retryVars, toolVars, threads, simple, simple_cache, appVars>>
    \/ WorkingAgentDeepSeek /\ UNCHANGED <<cacheVars, now, retryVars, toolVars, threads, simple, simple_cache, appVars>>
    \/ WorkingAgentGroq /\ UNCHANGED <<cacheVars, now, retryVars, toolVars, threads, simple, simple_cache, appVars>>
    \/ WorkingAgentRootAgent /\ UNCHANGED <<cacheVars, now, retryVars, toolVars, threads, simple, simple_cache, appVars>>

SpecModels == InitModels /\ [][NextModels]_vars

----------------------------------------------------------------------------
(* direct_app.get_tool_results on a flight query.  The parsing of the query
   leaves three-letter airport codes (or the defaults DMM and RUH) and one of
   three date periods; the real flight search is tried first and the mock
   FlightSearchTool, which is decorated with retry, is the fallback. *)

AppOrigins == {<< "D", "M", "M" >>, << "J", "E", "D" >>}
AppDestinations == {<< "R", "U", "H" >>}
DatePeriods == {<< "t", "o", "m", "o", "r", "r", "o", "w" >>, << "n", "e", "x", "t", " ", "w", "e", "e", "k" >>, << "t", "h", "i", "s", " ", "w", "e", "e", "k", "e", "n", "d" >>}

\* the texts get_tool_results can answer with
ProcessingText == "I'm processing your request..."
RealFlightsText == "I found some flights"
MockFlightsText == "I found some flight options"
GenericText == "I'm an AI Travel Assistant"

\* real_flight_tool.execute(dummy_context, origin=..., destination=...,
\* date_period=..., num_results=5, sort_by_price=True)
AppRealKwargs(origin, destination, date_period) ==
    Merge(Merge(Dict1("origin", PyStr(origin)), Dict1("destination", PyStr(destination))),
          Merge(Dict1("date_period", PyStr(date_period)), Dict1("num_results", PyInt(5))))

\* flight_tool.execute(dummy_context, origin=origin, destination=destination,
\* date=date_period)
AppMockKwargs(origin, destination, date_period) ==
    Merge(Merge(Dict1("origin", PyStr(origin)), Dict1("destination", PyStr(destination))),
          Dict1("date", PyStr(date_period)))

\* `if not tool_results:` at the end of get_tool_results
FinalText(has_results, text) == IF has_results THEN text ELSE GenericText

\* get_tool_results(user_query) for a flight query: the real flight search;
\* with status "success" and flights the results are taken from it, otherwise
\* the mock tool's wrapper is entered
AppFlightQuery ==
    /\ app.pc \in {"idle", "done"}
    /\ pc \in {"idle", "done"}
    /\ requests < MaxRequests
    /\ requests' = requests + 1
    /\ \E origin \in AppOrigins, destination \in AppDestinations, date_period \in DatePeriods,
          response \in HttpResponses :
        \E eff \in {RealFlightSearchTool_execute(
                       AppRealKwargs(origin, destination, date_period), response)} :
        /\ flight_cache' = eff.fc
        /\ lru' = eff.lru
        /\ script' = << >>
        /\ IF eff.res.kind = "return" /\ eff.res.val.status = "success"
           THEN /\ app' = [pc |-> "done", origin |-> origin, destination |-> destination,
                           date_period |-> date_period, real_status |-> "success",
                           has_flights |-> TRUE, flights |-> eff.res.val.data,
                           response_text |-> FinalText(TRUE, RealFlightsText)]
                /\ tool' = "real_flight"
                /\ kwargs' = AppRealKwargs(origin, destination, date_period)
                /\ attempts' = <<Attempt(eff)>>
                /\ outcome' = [eff.res EXCEPT !.at = 1]
                /\ pc' = "done"
                /\ func_calls' = 1
                /\ sleeps' = << >>
                /\ max_tries' = 0 /\ delay_seconds' = 0 /\ exceptions' = {}
                /\ tries' = 0 /\ current_delay' = 0
           ELSE /\ app' = [pc |-> "fallback", origin |-> origin, destination |-> destination,
                           date_period |-> date_period,
                           real_status |-> IF eff.res.kind = "return" THEN eff.res.val.status
                                           ELSE eff.res.val,
                           has_flights |-> FALSE, flights |-> NoData,
                           response_text |-> ProcessingText]
                /\ tool' = "flight"
                /\ kwargs' = AppMockKwargs(origin, destination, date_period)
                /\ attempts' = << >>
                /\ max_tries' = ToolMaxTries
                /\ delay_seconds' = ToolDelaySeconds
                /\ exceptions' = {"ServiceUnavailableError"}
                /\ WrapperEnter
    /\ UNCHANGED <<cacheVars, now, SERPER_API_KEY, threads, simple, simple_cache, llmVars,
                   sorting>>

\* the mock tool's wrapper has ended: `if "flights" in mock_results`, the
\* `except Exception` of get_tool_results, and `if not tool_results`
AppFallbackReturn ==
    /\ app.pc = "fallback"
    /\ pc = "done"
    /\ LET found == outcome.kind = "return" /\ outcome.val.status = "success" IN
       app' = [app EXCEPT !.pc = "done",
                          !.has_flights = found,
                          !.flights = IF found THEN outcome.val.data ELSE NoData,
                          !.response_text =
                              FinalText(found, IF found THEN MockFlightsText
                                               ELSE ProcessingText)]
    /\ UNCHANGED <<cacheVars, now, retryVars, toolVars, threads, simple, simple_cache,
                   llmVars, sorting>>

InitApp == InitTools

NextApp ==
    \/ AppFlightQuery
    \/ ToolCall
    \/ AppFallbackReturn
    \/ AdvanceClock

SpecApp == InitApp /\ [][NextApp]_vars

----------------------------------------------------------------------------
(* FlightSearchTool._generate_mock_flights, one-way: the flights it builds, the
   price_range filter and the sort.  The random draws of a flight are inputs;
   its strings are formatted and read back as the code does. *)

MaxFlights == 3       \* flights generated in one search

\* the characters of the model's strings in code point order
CodePoints == <<" ", "-", "0", "1", "2", "3", "4", "5", "6", "7", "8", "9", ":",
                "A", "B", "C", "D", "E", "F", "G", "H", "I", "J", "K", "L", "M",
                "N", "O", "P", "Q", "R", "S", "T", "U", "V", "W", "X", "Y", "Z", "_",
                "a", "b", "c", "d", "e", "f", "g", "h", "i", "j", "k", "l", "m",
                "n", "o", "p", "q", "r", "s", "t", "u", "v", "w", "x", "y", "z">>
Ord(ch) == CHOOSE i \in 1..Len(CodePoints) : CodePoints[i] = ch

\* str < str
RECURSIVE StrLess(_, _)
StrLess(a, b) ==
    IF b = << >> THEN FALSE
    ELSE IF a = << >> THEN TRUE
    ELSE IF Head(a) # Head(b) THEN Ord(Head(a)) < Ord(Head(b))
    ELSE StrLess(Tail(a), Tail(b))

\* str.split(sep)
RECURSIVE Split(_, _)
Split(s, sep) ==
    LET at == {i \in 1..(Len(s) - Len(sep) + 1) : SubSeq(s, i, i + Len(sep) - 1) = sep} IN
    IF at = {} THEN <<s>>
    ELSE LET i == CHOOSE x \in at : \A y \in at : x <= y
         IN <<SubSeq(s, 1, i - 1)>> \o Split(SubSeq(s, i + Len(sep), Len(s)), sep)

\* f"{n:02d}"
Pad2(n) == IF n < 10 THEN <<"0">> \o NatStr(n) ELSE NatStr(n)

\* the prices of a flight for one passenger and a random_variation of 1
Prices(base_price) ==
    [c \in CabinClasses |->
        CASE c = << "e", "c", "o", "n", "o", "m", "y" >> -> base_price
          [] c = << "p", "r", "e", "m", "i", "u", "m", "_", "e", "c", "o", "n", "o", "m", "y" >> -> (base_price * 18) \div 10
          [] c = << "b", "u", "s", "i", "n", "e", "s", "s" >> -> (base_price * 32) \div 10
          [] OTHER -> (base_price * 65) \div 10]

\* the dict of one generated flight; dep_hour, dep_minute, flight_duration and
\* flight_duration_minutes are the draws its strings are formatted from
MockFlight(airline, dep_hour, dep_minute, flight_duration, flight_duration_minutes, base_price) ==
    [airline |-> airline,
     departure_time |-> Pad2(dep_hour) \o <<":">> \o Pad2(dep_minute),
     duration |-> NatStr(flight_duration) \o << "h", " " >> \o NatStr(flight_duration_minutes) \o << "m" >>,
     prices |-> Prices(base_price),
     dep_hour |-> dep_hour, dep_minute |-> dep_minute,
     flight_duration |-> flight_duration,
     flight_duration_minutes |-> flight_duration_minutes,
     total_results |-> 0]

FlightPool ==
    {MockFlight(<< "D", "e", "l", "t", "a" >>, 6, 30, 10, 0, 500),
     MockFlight(<< "A", "m", "e", "r", "i", "c", "a", "n" >>, 22, 5, 2, 5, 200),
     MockFlight(<< "U", "n", "i", "t", "e", "d" >>, 10, 0, 2, 0, 900),
     MockFlight(<< "B", "r", "i", "t", "i", "s", "h", " ", "A", "i", "r", "w", "a", "y", "s" >>, 9, 45, 1, 59, 200)}
GeneratedLists == UNION {[1..n -> FlightPool] : n \in 0..MaxFlights}
SortKeys == {<< "p", "r", "i", "c", "e" >>, << "d", "u", "r", "a", "t", "i", "o", "n" >>, << "d", "e", "p", "a", "r", "t", "u", "r", "e" >>, << "a", "i", "r", "l", "i", "n", "e" >>, << "s", "t", "o", "p", "s" >>}
PriceRanges == {<< >>, << "2", "0", "0", "-", "9", "0", "0" >>, << "5", "0", "0", "-", "5", "0", "0" >>, << "9", "0", "0", "-", "2", "0", "0" >>, << "2", "0", "0" >>, << "l", "o", "w", "-", "h", "i", "g", "h" >>}
SortCabins == {<< "e", "c", "o", "n", "o", "m", "y" >>, << "b", "u", "s", "i", "n", "e", "s", "s" >>, << "l", "u", "x", "u", "r", "y" >>}

\* the key of sort_by == "duration"
DurationHoursOnly(d) == IntOf(PyStr(Split(d, << "h" >>)[1])).val * 60
DurationMinutes(d) ==
    IntOf(PyStr(Split(d, << "h" >>)[1])).val * 60
        + IntOf(PyStr(Split(Split(d, << "h", " " >>)[2], << "m" >>)[1])).val

\* list.sort(key=...): stable, by the keys' `<`; keys[i] is the key of s[i] and
\* strs says that the keys are strings
SortedBy(s, keys, strs) ==
    LET Less(a, b) == IF strs THEN StrLess(a, b) ELSE a < b
        Rank(i) == Cardinality({j \in 1..Len(s) :
                        \/ Less(keys[j], keys[i])
                        \/ ~Less(keys[i], keys[j]) /\ j < i}) + 1
    IN [p \in 1..Len(s) |-> s[CHOOSE i \in 1..Len(s) : Rank(i) = p]]

\* "Filter by price range if specified": ValueError from the unpacking or
\* from int() leaves the flights as they are
PriceFilter(flights, price_range, cabin_class) ==
    LET parts == Split(price_range, <<"-">>)
        min_price == IntOf(PyStr(parts[1]))
        max_price == IntOf(PyStr(parts[2]))
    IN  IF price_range = << >> THEN Returned(flights, 0)
        ELSE IF Len(parts) # 2 THEN Returned(flights, 0)
        ELSE IF min_price.kind = "raise" \/ max_price.kind = "raise" THEN Returned(flights, 0)
        ELSE IF flights # << >> /\ cabin_class \notin CabinClasses THEN Raised("KeyError", 0)
        ELSE Returned(SelectSeq(flights,
                 LAMBDA f : min_price.val <= f.prices[cabin_class]
                            /\ f.prices[cabin_class] <= max_price.val), 0)

\* "Sort flights based on sort_by parameter"
SortFlights(flights, sort_by, cabin_class) ==
    LET n == Len(flights) IN
    CASE sort_by = << "p", "r", "i", "c", "e" >> ->
            IF n > 1 /\ cabin_class \notin CabinClasses THEN Raised("KeyError", 0)
            ELSE IF n <= 1 THEN Returned(flights, 0)
            ELSE Returned(SortedBy(flights, [i \in 1..n |-> flights[i].prices[cabin_class]],
                                   FALSE), 0)
      [] sort_by = << "d", "u", "r", "a", "t", "i", "o", "n" >> ->
            Returned(SortedBy(flights, [i \in 1..n |-> DurationMinutes(flights[i].duration)],
                              FALSE), 0)
      [] sort_by = << "d", "e", "p", "a", "r", "t", "u", "r", "e" >> ->
            Returned(SortedBy(flights, [i \in 1..n |-> flights[i].departure_time], TRUE), 0)
      [] sort_by = << "a", "i", "r", "l", "i", "n", "e" >> ->
            Returned(SortedBy(flights, [i \in 1..n |-> flights[i].airline], TRUE), 0)
      [] OTHER -> Returned(flights, 0)

\* "Add a summary section": price statistics read prices[cabin_class] of every
\* flight, and the first flight gets search_summary
WithSummary(flights, cabin_class) ==
    IF flights = << >> THEN Returned(flights, 0)
    ELSE IF cabin_class \notin CabinClasses THEN Raised("KeyError", 0)
    ELSE Returned([flights EXCEPT ![1].total_results = Len(flights)], 0)

\* the flights are generated: the loop of _generate_mock_flights
FlightsGenerated ==
    /\ sorting.pc = "idle"
    /\ \E flights \in GeneratedLists, sort_by \in SortKeys, price_range \in PriceRanges,
          cabin_class \in SortCabins :
        sorting' = [pc |-> "generated", flights |-> flights, sort_by |-> sort_by,
                    price_range |-> price_range, cabin_class |-> cabin_class,
                    result |-> Returned(<< >>, 0)]

\* the rest of _generate_mock_flights without return_date
FilterSortReturn ==
    /\ sorting.pc = "generated"
    /\ LET filtered == PriceFilter(sorting.flights, sorting.price_range, sorting.cabin_class)
           sorted == IF filtered.kind = "raise" THEN filtered
                     ELSE SortFlights(filtered.val, sorting.sort_by, sorting.cabin_class)
           summed == IF sorted.kind = "raise" THEN sorted
                     ELSE WithSummary(sorted.val, sorting.cabin_class)
       IN sorting' = [sorting EXCEPT !.pc = "done", !.result = summed]

InitSort == InitRetry

NextSort ==
    \/ FlightsGenerated /\ UNCHANGED <<cacheVars, now, retryVars, toolVars, threads, simple, simple_cache, llmVars, app>>
    \/ FilterSortReturn /\ UNCHANGED <<cacheVars, now, retryVars, toolVars, threads, simple, simple_cache, llmVars, app>>

SpecSort == InitSort /\ [][NextSort]_vars

----------------------------------------------------------------------------
(* Claims about ExpiringCache, checked under SpecCache *)

\* C1: a get(k) made while the set(k, v) of time T is still in force (no later
\* set, clear or evicting get on k) returns v at any time <= T+S-1 and None
\* at any time >= T+S+1.
C1_RetrievableUntilTTL ==
    (cacheOp.op = "get" /\ cacheOp.held # NoSet) =>
        /\ (now <= cacheOp.held.t + expiry_seconds - 1) => cacheOp.result = cacheOp.held.v
        /\ (now >= cacheOp.held.t + expiry_seconds + 1) => cacheOp.result = None

C1_Witness ==
    /\ cacheOp.op = "get" /\ cacheOp.held # NoSet
    /\ cacheOp.held.t < now
    /\ now = cacheOp.held.t + expiry_seconds - 1
    /\ cacheOp.result = cacheOp.held.v

\* C2: a get(k) on a present but expired key returns None and leaves k in
\* neither map; a get(k) on an unexpired key leaves both maps as they were.
C2_LazyEviction ==
    (cacheOp.op = "get" /\ cacheOp.key \in DOMAIN cacheOp.cache0) =>
        IF now >= cacheOp.expiry0[cacheOp.key]
        THEN /\ cacheOp.result = None
             /\ cacheOp.key \notin DOMAIN cache
             /\ cacheOp.key \notin DOMAIN expiry
        ELSE cache = cacheOp.cache0 /\ expiry = cacheOp.expiry0

C2_Witness ==
    /\ cacheOp.op = "get" /\ cacheOp.key \in DOMAIN cacheOp.cache0
    /\ now >= cacheOp.expiry0[cacheOp.key]
    /\ cacheOp.key \notin DOMAIN cache
    /\ DOMAIN cache # {}

\* C3: after set(k, v2) at T2 on a key that held v1 from T1 < T2, a get(k)
\* before T2+S returns v2, also when the time is past T1+S.
C3_SetOverwrites ==
    (cacheOp.op = "get" /\ cacheOp.held.pt >= 0 /\ cacheOp.held.pt < cacheOp.held.t
        /\ now < cacheOp.held.t + expiry_seconds) =>
        cacheOp.result = cacheOp.held.v

C3_Witness ==
    /\ cacheOp.op = "get" /\ cacheOp.held.pt >= 0 /\ cacheOp.held.pt < cacheOp.held.t
    /\ cacheOp.held.pv # cacheOp.held.v
    /\ now >= cacheOp.held.pt + expiry_seconds
    /\ now < cacheOp.held.t + expiry_seconds
    /\ cacheOp.result = cacheOp.held.v

\* C12: set(k, v) and get(k) leave the value and expiry of every other key as
\* they were; set stores its entry whatever the number of entries; an entry
\* disappears only through a get on its own key at or after its expiry or
\* through clear()
C12_NoEvictionButTTL ==
    /\ cacheOp.op \in {"get", "set"} =>
          \A k \in Keys \ {cacheOp.key} :
              /\ k \in DOMAIN cache <=> k \in DOMAIN cacheOp.cache0
              /\ k \in DOMAIN cache =>
                    /\ cache[k] = cacheOp.cache0[k]
                    /\ expiry[k] = cacheOp.expiry0[k]
    /\ cacheOp.op = "set" =>
          /\ DOMAIN cache = DOMAIN cacheOp.cache0 \cup {cacheOp.key}
          /\ cache[cacheOp.key] = cacheOp.value
          /\ expiry[cacheOp.key] = now + expiry_seconds
    /\ \A k \in DOMAIN cacheOp.cache0 \ DOMAIN cache :
          \/ cacheOp.op = "clear"
          \/ cacheOp.op = "get" /\ cacheOp.key = k /\ now >= cacheOp.expiry0[k]

\* C12 witness: a set added an entry next to an expired one that nobody has
\* read, and both are in the maps
C12_Witness ==
    /\ cacheOp.op = "set"
    /\ cacheOp.key \notin DOMAIN cacheOp.cache0
    /\ DOMAIN cache = Keys
    /\ \E k \in Keys \ {cacheOp.key} : now >= expiry[k]

----------------------------------------------------------------------------
(* Claims about utils.retry, checked under SpecRetry *)

\* cls is a class of the configured tuple, or a subclass of one
Retryable(cls) == cls \in exceptions \/ "Exception" \in exceptions

\* the callable raises a retryable exception on each of its first n invocations
FailsFirst(n) ==
    \A i \in 1..n : script[i] # "ok" /\ Retryable(script[i])

\* C4: with max_tries = M >= 1 and 1 <= N <= M, a callable that raises a
\* retryable exception on its first N-1 invocations and then returns r makes
\* the wrapper return r after exactly N invocations.
C4_SucceedsOnNthCall ==
    \A N \in 1..MaxTriesBound :
        (pc = "done" /\ max_tries >= 1 /\ N <= max_tries
            /\ FailsFirst(N - 1) /\ script[N] = "ok") =>
        /\ outcome = Returned(RetVal(N), N)
        /\ func_calls = N

C4_Witness ==
    /\ pc = "done" /\ max_tries = 3
    /\ FailsFirst(2) /\ script[3] = "ok"
    /\ outcome = Returned(RetVal(3), 3)
    /\ func_calls = 3

\* C5: with max_tries = M >= 1, a callable that raises a retryable exception on
\* every invocation is invoked exactly M times and the wrapper then raises the
\* exception of the M-th invocation; there is never an (M+1)-th call and never
\* a returned value.
C5_RaisesAfterMaxTries ==
    (pc # "idle" /\ max_tries >= 1 /\ FailsFirst(Len(script))) =>
        /\ func_calls <= max_tries
        /\ outcome.kind # "return"
        /\ pc = "done" =>
            /\ func_calls = max_tries
            /\ outcome = Raised(script[max_tries], max_tries)

C5_Witness ==
    /\ pc = "done" /\ max_tries = 3 /\ FailsFirst(Len(script))
    /\ script[2] # script[3]
    /\ func_calls = 3
    /\ outcome = Raised(script[3], 3)

\* C6: an exception that is not an instance of a class in `exceptions`
\* propagates at once: no call and no sleep follows the invocation that raised it.
C6_NonRetryablePropagates ==
    \A i \in 1..MaxTriesBound :
        (pc # "idle" /\ i <= max_tries /\ FailsFirst(i - 1)
            /\ script[i] # "ok" /\ ~Retryable(script[i])) =>
        /\ func_calls <= i
        /\ Len(sleeps) <= i - 1
        /\ func_calls = i => (pc = "done" /\ outcome = Raised(script[i], i))

C6_Witness ==
    /\ pc = "done" /\ max_tries = 3
    /\ script[1] = "ValueError" /\ ~Retryable("ValueError")
    /\ outcome = Raised("ValueError", 1)
    /\ func_calls = 1 /\ sleeps = << >>

\* C7: the i-th sleep lasts delay_seconds * 2^(i-1); a finished call has slept
\* once after each invocation but the last, and an exhausted call has slept
\* M-1 times, delay_seconds * (2^(M-1) - 1) in all.
C7_BackoffDoubles ==
    (pc # "idle") =>
        /\ \A i \in 1..Len(sleeps) : sleeps[i] = delay_seconds * Pow2(i - 1)
        /\ (pc = "done" /\ func_calls >= 1) => Len(sleeps) = func_calls - 1
        /\ (pc = "done" /\ func_calls = 0) => sleeps = << >>
        /\ (pc = "done" /\ outcome.kind = "raise" /\ Retryable(outcome.val)) =>
            /\ Len(sleeps) = max_tries - 1
            /\ SumSeq(sleeps) = delay_seconds * (Pow2(max_tries - 1) - 1)
        /\ now = SumSeq(sleeps)

C7_Witness ==
    /\ pc = "done" /\ max_tries = 4 /\ delay_seconds = 2
    /\ outcome.kind = "raise" /\ Retryable(outcome.val)
    /\ sleeps = <<2, 4, 8>>

----------------------------------------------------------------------------
(* Claims about the tools, checked under SpecTools *)

\* the failure met by the latest invocation of execute
LastFail == IF attempts = << >> THEN "none" ELSE attempts[Len(attempts)].fail

\* C8: when the mock generator inside a decorated execute raises
\* ServiceUnavailableError the call is retried: either another attempt follows
\* the failed one after a backoff sleep, or the failed attempt was the third,
\* two sleeps were taken, and only then is an error payload handed to the caller
C8_GeneratorOutageRetried ==
    \A i \in 1..Len(attempts) :
        (tool \in DecoratedTools /\ attempts[i].gen = 1
            /\ attempts[i].fail = "ServiceUnavailableError") =>
        \/ i < Len(attempts)
        \/ pc = "loop" /\ Len(sleeps) = i
        \/ /\ pc = "done" /\ i = ToolMaxTries /\ func_calls = ToolMaxTries
           /\ sleeps = <<ToolDelaySeconds, 2 * ToolDelaySeconds>>
           /\ outcome.kind = "return" /\ outcome.val.status = "error"

\* C9: a finished call of execute, of any of the five tools, on any keyword
\* arguments and any failure of generator, cache or HTTP call, has returned a
\* dict and let no exception escape; when the operation failed the dict has
\* status "error" and a message
C9_ExecuteAlwaysReturnsDict ==
    (pc = "done" /\ tool \in DecoratedTools \cup PlainTools) =>
        /\ outcome.kind = "return"
        /\ outcome.val.status \in {"success", "error", "info"}
        /\ LastFail # "none" =>
               outcome.val.status = "error" /\ outcome.val.message # None

\* C9 witness: an exception raised inside execute came back as an error payload
C9_Witness ==
    /\ pc = "done" /\ tool = "web"
    /\ LastFail = "RequestException"
    /\ outcome.kind = "return" /\ outcome.val.status = "error"

\* A keyword argument that is left out, None or the empty string
Missing(kw, k) ==
    k \notin DOMAIN kw \/ kw[k].t = "none" \/ (kw[k].t = "str" /\ kw[k].s = << >>)
\* four digits, a dash, two digits, a dash, two digits
YMDForm(s) ==
    /\ Len(s) = 10 /\ s[5] = "-" /\ s[8] = "-"
    /\ \A i \in {1, 2, 3, 4, 6, 7, 9, 10} : s[i] \in Digits
\* the inputs C10 names, read off the keyword arguments as they are passed
InvalidAsPassed(t, kw) ==
    \/ /\ t = "flight"
       /\ \/ \E k \in {"origin", "destination", "date"} : Missing(kw, k)
          \/ kw["date"].t = "str" /\ ~YMDForm(kw["date"].s)
    \/ /\ t = "travel_info"
       /\ \/ Missing(kw, "destination")
          \/ /\ "info_type" \in DOMAIN kw
             /\ kw["info_type"].t = "str"
             /\ kw["info_type"].s \notin valid_info_types

\* what a validation error reported at once looks like, as a step of the wrapper
RejectedAtOnce ==
    /\ pc' = "done"
    /\ outcome'.kind = "return"
    /\ outcome'.val.status = "error"
    /\ outcome'.val.error_type = "ValidationError"
    /\ func_calls' = 1 /\ sleeps' = << >> /\ now' = now
    /\ Len(attempts') = 1 /\ attempts'[1].gen = 0
    /\ cache' = cache /\ expiry' = expiry

Cleaned(kw, k, default) ==
    LET v == DictGet(kw, k, PyStr(default)) IN
    IF v.t = "str" THEN SelectSeq(v.s, KeptChar) ELSE << >>
\* every keyword argument has the type execute expects
WellTyped(kw) ==
    \A k \in DOMAIN kw :
        IF k = "max_results" THEN kw[k].t = "int" ELSE kw[k].t \in {"str", "none"}
InvalidAsValidated(t, kw) ==
    /\ WellTyped(kw)
    /\ \/ /\ t = "flight"
          /\ \/ \E k \in {"origin", "destination", "date"} : Cleaned(kw, k, << >>) = << >>
             \/ ~strptime(Cleaned(kw, "date", << >>)).ok
       \/ /\ t = "travel_info"
          /\ \/ Cleaned(kw, "destination", << >>) = << >>
             \/ LET info_type == Cleaned(kw, "info_type", << "g", "e", "n", "e", "r", "a", "l" >>)
                IN info_type # << >> /\ info_type \notin valid_info_types

PairKey(kw) ==
    << "t", "r", "a", "v", "e", "l", "_", "i", "n", "f", "o", ":" >>
        \o Cleaned(kw, "destination", << >>) \o <<":">>
        \o Cleaned(kw, "info_type", << "g", "e", "n", "e", "r", "a", "l" >>)
\* a TravelInfoTool call is about to run with arguments the validation accepts
TravelInfoCallDue ==
    /\ pc = "loop" /\ tool = "travel_info"
    /\ WellTyped(kwargs) /\ ~InvalidAsValidated(tool, kwargs)

\* C11: a TravelInfoTool call that generates its information and returns
\* success stores it under its (destination, info_type) pair for 86400 s; no
\* step changes an entry before its expiry; and a call whose pair has an
\* unexpired entry returns exactly that entry, flagged cached, without
\* invoking _generate_mock_travel_info
C11_CachedWithinTTL ==
    [][/\ (TravelInfoCallDue /\ outcome'.kind = "return"
              /\ outcome'.val.status = "success" /\ ~outcome'.val.cached) =>
            /\ PairKey(kwargs) \in DOMAIN cache'
            /\ cache'[PairKey(kwargs)] = outcome'.val.data
            /\ expiry'[PairKey(kwargs)] = now + TRAVEL_INFO_TTL
       /\ \A k \in DOMAIN cache :
            (k \in DOMAIN expiry /\ now < expiry[k]) =>
                /\ k \in DOMAIN cache' /\ cache'[k] = cache[k]
                /\ k \in DOMAIN expiry' /\ expiry'[k] = expiry[k]
       /\ (TravelInfoCallDue /\ PairKey(kwargs) \in DOMAIN cache
              /\ now < expiry[PairKey(kwargs)]) =>
            /\ pc' = "done" /\ outcome'.kind = "return"
            /\ outcome'.val.status = "success" /\ outcome'.val.cached
            /\ outcome'.val.data = cache[PairKey(kwargs)]
            /\ Len(attempts') = 1 /\ attempts'[1].gen = 0
      ]_vars

\* C11 witness: a later call, made after time has passed but within the TTL,
\* returned the stored information flagged cached
C11_Witness ==
    /\ pc = "done" /\ tool = "travel_info" /\ now > 0
    /\ PairKey(kwargs) \in DOMAIN cache /\ now < expiry[PairKey(kwargs)]
    /\ expiry[PairKey(kwargs)] = TRAVEL_INFO_TTL
    /\ outcome.kind = "return" /\ outcome.val.cached
    /\ outcome.val.data = cache[PairKey(kwargs)]
    /\ attempts[1].gen = 0

----------------------------------------------------------------------------
(* Claims about ExpiringCache under two threads, checked under SpecThreads *)

\* C13: when a get(k) has found k expired, another thread's set(k, v) then
\* completes, and the get goes on to its deletions and returns None, the entry
\* just set is gone: a get(k) that follows finds no fresh entry for k
C13_ConcurrentSetLost ==
    (cacheOp.op = "get" /\ cacheOp.held # NoSet /\ cacheOp.result = None) =>
        /\ ~IsFresh(cache, expiry, cacheOp.key, now)
        /\ GetResult(cache, expiry, cacheOp.key, now) = None

\* C13 witness: with no thread left inside the cache, a get(k) that found k
\* expired has returned after deleting the entry of a set(k, v) that completed
\* in between, and the TTL of that set has not elapsed
C13_Witness ==
    /\ cacheOp.op = "get" /\ cacheOp.result = None /\ cacheOp.held # NoSet
    /\ cacheOp.key \in DOMAIN cacheOp.expiry0
    /\ cacheOp.expiry0[cacheOp.key] = cacheOp.held.t + expiry_seconds
    /\ \A th \in Threads : threads[th].pc = "idle"
    /\ setAt[cacheOp.key] = cacheOp.held
    /\ now < cacheOp.held.t + expiry_seconds
    /\ cacheOp.key \notin DOMAIN cache

----------------------------------------------------------------------------
(* Claims about travel_info_simple.retry, checked under SpecBothRetries *)

\* C15: run on the same sequence of ServiceUnavailableError failures, the
\* wrapper of travel_info_simple.retry and the wrapper of utils.retry (told to
\* retry ServiceUnavailableError) make the same number of calls, end with the
\* same outcome, and sleep the same delays: delay_seconds, 2 * delay_seconds, ...
C15_SimpleRetrySameBackoff ==
    (pc = "done" /\ simple.pc = "done" /\ exceptions = {"ServiceUnavailableError"}) =>
        /\ simple.func_calls = func_calls
        /\ simple.outcome = outcome
        /\ simple.sleeps = sleeps
        /\ \A i \in 1..Len(simple.sleeps) : simple.sleeps[i] = delay_seconds * Pow2(i - 1)

----------------------------------------------------------------------------
(* Claims about travel_info_simple.TravelInfoTool, checked under SpecSimpleTool *)

\* the cache key of the call in progress
SimplePairKey ==
    SimpleKey(DictGet(kwargs, "destination", PyStr(<< >>)),
              DictGet(kwargs, "info_type", PyStr(<< "g", "e", "n", "e", "r", "a", "l" >>)))

\* C14: a call of the registered travel-information tool whose (destination,
\* info_type) was cached a TTL (86400 s) or longer ago treats the entry as
\* absent: it invokes the generator again and does not answer cached = True
C14_SimpleCacheHonoursTTL ==
    [][(/\ tool = "travel_info_simple" /\ simple.pc = "loop"
        /\ SimplePairKey \in DOMAIN simple_cache
        /\ now >= simple_cache[SimplePairKey].at + TRAVEL_INFO_TTL) =>
            /\ Len(attempts') = 1 /\ attempts'[1].gen = 1
            /\ ~(simple'.outcome.kind = "return" /\ simple'.outcome.val.cached)
      ]_vars

----------------------------------------------------------------------------
(* Claims about the schema of TravelInfoTool, checked under SpecTools *)

\* C16: a TravelInfoTool call with a non-empty destination and an info_type
\* that function_schema advertises (visa, weather, attractions,
\* transportation, safety, food, currency) does not come back as a
\* ValidationError payload
C16_SchemaInfoTypesAccepted ==
    (/\ pc = "done" /\ tool = "travel_info" /\ WellTyped(kwargs)
     /\ Cleaned(kwargs, "destination", << >>) # << >>
     /\ "info_type" \in DOMAIN kwargs
     /\ kwargs["info_type"].t = "str"
     /\ kwargs["info_type"].s \in schema_info_types) =>
        ~(outcome.kind = "return" /\ outcome.val.error_type = "ValidationError")

----------------------------------------------------------------------------
(* Claims about model selection, checked under SpecModels *)

\* C17: when create_adk_model has returned in an environment where the
\* DeepSeek setup fails, GROQ_API_KEY is unset and OPENAI_API_KEY is set, its
\* result is a CustomLiteLLMModel named after the OpenAI fallback model with
\* _setup_success true, not None
C17_OpenAILastResort ==
    (/\ llm.pc = "adk_done"
     /\ ~OpenAISetup(environ)
     /\ "GROQ_API_KEY" \notin environ.set
     /\ "OPENAI_API_KEY" \in environ.set) =>
        /\ llm.model # NoModel
        /\ llm.model.class = "CustomLiteLLMModel"
        /\ llm.model.name = FALLBACK_MODELS.openai
        /\ llm.model.setup

\* C18: when working_agent.agent has been loaded in an environment without
\* DEEPSEEK_API_KEY but with GROQ_API_KEY and GROQ_API_BASE (and constructors
\* that do not raise), the load has not failed and root_agent is backed by the
\* Groq model
C18_GroqWhenDeepSeekAbsent ==
    (/\ llm.pc = "wa_done"
     /\ "DEEPSEEK_API_KEY" \notin environ.set
     /\ {"GROQ_API_KEY", "GROQ_API_BASE"} \subseteq environ.set
     /\ environ.raising = {}) =>
        /\ llm.error = None
        /\ llm.model.class = "LiteLlm"
        /\ Contains(llm.model.name, << "g", "r", "o", "q" >>)

----------------------------------------------------------------------------
(* Claims about WebSearchTool and RealFlightSearchTool, checked under SpecTools *)

\* C19: when a web search has returned results fetched from the API and the
\* identical search is made again in the same CACHE_TTL bucket, less than 3600 s
\* after the first, the second search issues no HTTP POST and returns the
\* results of the first
C19_RepeatedSearchFromCache ==
    [][(/\ tool = "web" /\ pc = "done"
        /\ outcome.kind = "return" /\ outcome.val.status = "success"
        /\ outcome.val.data.id = 1
        /\ attempts[1].http = 1
        /\ now < WEB_CACHE_TTL
        /\ tool' = "web" /\ kwargs' = kwargs /\ requests' = requests + 1
        /\ now' = now) =>
            /\ attempts'[1].http = 0
            /\ outcome'.kind = "return" /\ outcome'.val = outcome.val]_vars


\* the keyword arguments of a RealFlightSearchTool call that reaches
\* _search_flights, and the cache key read off them
FlightArgsValid(kw) ==
    /\ \A name \in {"origin", "destination"} :
        name \in DOMAIN kw /\ kw[name].t = "str" /\ Strip(kw[name].s) # << >>
    /\ "num_results" \in DOMAIN kw => kw["num_results"].t = "int"
    /\ "date_period" \in DOMAIN kw => kw["date_period"].t = "str"
FlightPairKey(kw) ==
    LET period == IF "date_period" \in DOMAIN kw THEN kw["date_period"].s
                  ELSE << "n", "e", "x", "t", " ", "w", "e", "e", "k" >>
        asked == IF "num_results" \in DOMAIN kw THEN kw["num_results"].n ELSE 5
    IN  Upper(Strip(kw["origin"].s)) \o <<"-">> \o Upper(Strip(kw["destination"].s))
            \o <<"-">> \o period \o <<"-">> \o NatStr(IF asked < 10 THEN asked ELSE 10)
\* this step is a RealFlightSearchTool call that reaches _search_flights
FlightSearchMade ==
    /\ tool' = "real_flight" /\ requests' = requests + 1
    /\ SERPER_API_KEY /\ FlightArgsValid(kwargs')

\* C20 as stated: a call whose key has an entry stamped T returns the entry's
\* list without an HTTP request when t - T < 1800, and issues a request and
\* restamps the entry when t - T >= 1800; no entry holds an empty list
C20_FlightCacheTTL ==
    [][FlightSearchMade =>
        LET k == FlightPairKey(kwargs') IN
        /\ (k \in DOMAIN flight_cache /\ now - flight_cache[k].timestamp < 1800) =>
                /\ attempts'[1].http = 0
                /\ flight_cache' = flight_cache
                /\ flight_cache[k].data.kind = "organic" =>
                      /\ outcome'.val.status = "success"
                      /\ outcome'.val.data.n = flight_cache[k].data.n
                      /\ outcome'.val.data.id = flight_cache[k].data.id
        /\ (k \in DOMAIN flight_cache /\ now - flight_cache[k].timestamp >= 1800) =>
                /\ attempts'[1].http = 1
                /\ flight_cache'[k].timestamp = now
        /\ \A j \in DOMAIN flight_cache' : flight_cache'[j].data.n > 0
      ]_vars

\* C20 amended: as stated, except that after t - T >= 1800 the entry is
\* restamped only when the new request returns a non-empty list; when the
\* request fails or returns nothing the stale entry stays as it was
C20_FlightCacheTTLRestampOnResults ==
    [][FlightSearchMade =>
        LET k == FlightPairKey(kwargs')
            fetched == /\ attempts'[1].fail \in {"none", "TypeError"}
                       /\ outcome'.val.status # "info"
        IN
        /\ (k \in DOMAIN flight_cache /\ now - flight_cache[k].timestamp < 1800) =>
                /\ attempts'[1].http = 0
                /\ flight_cache' = flight_cache
                /\ flight_cache[k].data.kind = "organic" =>
                      /\ outcome'.val.status = "success"
                      /\ outcome'.val.data.n = flight_cache[k].data.n
                      /\ outcome'.val.data.id = flight_cache[k].data.id
        /\ (k \in DOMAIN flight_cache /\ now - flight_cache[k].timestamp >= 1800) =>
                /\ attempts'[1].http = 1
                /\ IF fetched
                   THEN /\ flight_cache'[k].timestamp = now
                        /\ flight_cache'[k].data.n > 0
                   ELSE flight_cache' = flight_cache
        /\ k \notin DOMAIN flight_cache =>
                /\ attempts'[1].http = 1
                /\ fetched <=> k \in DOMAIN flight_cache'
        /\ \A j \in DOMAIN flight_cache' : flight_cache'[j].data.n > 0
      ]_vars

\* C20 witness: an identical call made 1799 s after the entry was stamped was
\* answered from flight_cache without an HTTP request
C20_Witness ==
    /\ tool = "real_flight" /\ pc = "done" /\ SERPER_API_KEY
    /\ FlightArgsValid(kwargs)
    /\ FlightPairKey(kwargs) \in DOMAIN flight_cache
    /\ flight_cache[FlightPairKey(kwargs)].timestamp < now
    /\ now - flight_cache[FlightPairKey(kwargs)].timestamp < 1800
    /\ attempts[1].http = 0
    /\ outcome.kind = "return" /\ outcome.val.status = "success"

----------------------------------------------------------------------------
(* Further claims about utils.retry, checked under SpecRetry *)

\* C25: a wrapper of utils.retry configured with max_tries <= 0 never invokes
\* the wrapped callable and never sleeps, and when it has ended it has returned
\* None and raised nothing
C25_NonPositiveMaxTriesNeverCalls ==
    (pc \in {"loop", "done"} /\ max_tries <= 0) =>
        /\ func_calls = 0
        /\ sleeps = << >>
        /\ tries = 0
        /\ pc = "done" => (outcome.kind = "return" /\ outcome.val = None)

\* C25 witness: a wrapper configured with max_tries <= 0 has ended, returning
\* None
C25_Witness ==
    /\ pc = "done" /\ max_tries <= 0
    /\ outcome.kind = "return" /\ outcome.val = None
    /\ func_calls = 0 /\ sleeps = << >>

----------------------------------------------------------------------------
(* Further claims about ExpiringCache under two threads, checked under SpecThreads *)

\* C26: a get(k) that has passed the `key in self.cache` test and reaches
\* `del self.cache[key]` after another thread's get(k) has deleted the entry
\* ends there with KeyError instead of reporting a miss; and a get ends with
\* KeyError only where it found the entry it was deleting gone
C26_ConcurrentGetKeyError ==
    [][\A th \in Threads :
          /\ (/\ threads[th].pc = "del_cache"
              /\ threads[th].key \notin DOMAIN cache
              /\ threads'[th] # threads[th]) =>
                  /\ threads'[th].pc = "idle"
                  /\ cacheOp'.op = "get" /\ cacheOp'.key = threads[th].key
                  /\ cacheOp'.result = KeyError
                  /\ cache' = cache /\ expiry' = expiry
          /\ (/\ threads[th].pc \in {"get_if", "del_cache", "del_expiry"}
              /\ threads'[th].pc = "idle"
              /\ cacheOp'.result = KeyError) =>
                  \/ threads[th].pc = "del_cache" /\ threads[th].key \notin DOMAIN cache
                  \/ threads[th].pc = "del_expiry" /\ threads[th].key \notin DOMAIN expiry
      ]_vars

\* C26 witness: two threads called get(k) on the same expired key and both
\* passed the test; one has deleted the cache entry and not yet the expiry
\* entry, the other's `del self.cache[key]` has just raised KeyError
C26_Witness ==
    /\ cacheOp.op = "get" /\ cacheOp.result = KeyError
    /\ cacheOp.key \notin DOMAIN cache
    /\ cacheOp.key \in DOMAIN expiry /\ now >= expiry[cacheOp.key]
    /\ \E th \in Threads : threads[th].pc = "del_expiry" /\ threads[th].key = cacheOp.key
                           /\ threads[th].expired
    /\ \E th \in Threads : threads[th].pc = "idle"

----------------------------------------------------------------------------
(* Claims about FlightSearchTool and HotelSearchTool, checked under SpecTools *)

\* a date in YYYY-MM-DD form as a number that orders dates
YMDOrd(s) ==
    NumVal(SubSeq(s, 1, 4)) * 10000 + NumVal(SubSeq(s, 6, 7)) * 100 + NumVal(SubSeq(s, 9, 10))
\* a FlightSearchTool call with two dates that are valid YYYY-MM-DD dates
RoundTripDates(kw) ==
    /\ WellTyped(kw)
    /\ \A k \in {"date", "return_date"} :
          /\ k \in DOMAIN kw /\ kw[k].t = "str"
          /\ YMDForm(kw[k].s) /\ validate_date_format(kw[k].s)

\* C22: a FlightSearchTool call that has returned, made with two valid
\* YYYY-MM-DD dates of which return_date is not strictly later than date, has
\* returned a status "error" payload and no flights
C22_ReturnDateAfterDeparture ==
    (/\ tool = "flight" /\ pc = "done" /\ outcome.kind = "return"
     /\ RoundTripDates(kwargs)
     /\ YMDOrd(kwargs["return_date"].s) <= YMDOrd(kwargs["date"].s)) =>
        /\ outcome.val.status = "error"
        /\ outcome.val.data = NoData


\* a HotelSearchTool call with valid parameters: a destination that survives
\* the sanitizing, two valid YYYY-MM-DD dates with check_out after check_in,
\* and at most guests and max_price besides
HotelArgsValid(kw) ==
    /\ {"destination", "check_in", "check_out"} \subseteq DOMAIN kw
    /\ DOMAIN kw \subseteq {"destination", "check_in", "check_out", "guests", "max_price"}
    /\ kw["destination"].t = "str" /\ Cleaned(kw, "destination", << >>) # << >>
    /\ \A k \in {"check_in", "check_out"} :
          kw[k].t = "str" /\ YMDForm(kw[k].s) /\ validate_date_format(kw[k].s)
    /\ YMDOrd(kw["check_out"].s) > YMDOrd(kw["check_in"].s)
    /\ \A k \in {"guests", "max_price"} : k \in DOMAIN kw => kw[k].t = "int"

\* C23: a HotelSearchTool call with valid parameters that has ended has
\* returned status "success" with hotels, and those hotels are then stored in
\* travel_info_cache; when it was a cache miss they were generated, otherwise
\* the payload is flagged cached
C23_HotelSearchGeneratesAndCaches ==
    (tool = "hotel" /\ pc = "done" /\ HotelArgsValid(kwargs)) =>
        /\ outcome.kind = "return"
        /\ outcome.val.status = "success"
        /\ DataTruthy(outcome.val.data)
        /\ \E k \in DOMAIN cache : cache[k] = outcome.val.data

----------------------------------------------------------------------------
(* Claims about direct_app.get_tool_results, checked under SpecApp *)

\* C21: when get_tool_results has ended on a flight query whose real flight
\* search did not return status "success" with flights, tool_results["flights"]
\* holds flights of the mock FlightSearchTool and the response text is the
\* flight-specific one, not the generic introduction
C21_FlightFallbackToMock ==
    (app.pc = "done" /\ app.real_status # "success") =>
        /\ app.has_flights
        /\ app.flights.kind = "flights"
        /\ app.response_text = MockFlightsText
        /\ app.response_text # GenericText

----------------------------------------------------------------------------
(* Claims about the one-way flight search, checked under SpecSort *)

\* a price range of the form min-max, two runs of digits around one dash
WellFormedRange(s) ==
    \E i \in 2..(Len(s) - 1) :
        s[i] = "-" /\ IsDigits(SubSeq(s, 1, i - 1)) /\ IsDigits(SubSeq(s, i + 1, Len(s)))
RangeDash(s) == CHOOSE i \in 1..Len(s) : s[i] = "-"
InRange(s, price) ==
    /\ NumVal(SubSeq(s, 1, RangeDash(s) - 1)) <= price
    /\ price <= NumVal(SubSeq(s, RangeDash(s) + 1, Len(s)))
\* the airlines of the generated flights in alphabetical order
AirlineOrder == <<<< "A", "m", "e", "r", "i", "c", "a", "n" >>, << "B", "r", "i", "t", "i", "s", "h", " ", "A", "i", "r", "w", "a", "y", "s" >>, << "D", "e", "l", "t", "a" >>, << "U", "n", "i", "t", "e", "d" >>>>
AirlineRank(a) == CHOOSE i \in 1..Len(AirlineOrder) : AirlineOrder[i] = a

\* C24: the flights a one-way search returns are in nondecreasing order of
\* prices[cabin_class] for sort_by "price", of total duration in minutes for
\* "duration", of departure time for "departure" and of airline name for
\* "airline"; and with a well-formed price_range min-max they are exactly the
\* generated flights with min <= prices[cabin_class] <= max
C24_SortedAndWithinRange ==
    (/\ sorting.pc = "done" /\ sorting.result.kind = "return"
     /\ sorting.cabin_class \in CabinClasses) =>
        LET R == sorting.result.val
            c == sorting.cabin_class
            Adjacent == 1..(Len(R) - 1)
        IN
        /\ sorting.sort_by = << "p", "r", "i", "c", "e" >> =>
              \A i \in Adjacent : R[i].prices[c] <= R[i + 1].prices[c]
        /\ sorting.sort_by = << "d", "u", "r", "a", "t", "i", "o", "n" >> =>
              \A i \in Adjacent :
                  R[i].flight_duration * 60 + R[i].flight_duration_minutes
                      <= R[i + 1].flight_duration * 60 + R[i + 1].flight_duration_minutes
        /\ sorting.sort_by = << "d", "e", "p", "a", "r", "t", "u", "r", "e" >> =>
              \A i \in Adjacent :
                  R[i].dep_hour * 60 + R[i].dep_minute
                      <= R[i + 1].dep_hour * 60 + R[i + 1].dep_minute
        /\ sorting.sort_by = << "a", "i", "r", "l", "i", "n", "e" >> =>
              \A i \in Adjacent : AirlineRank(R[i].airline) <= AirlineRank(R[i + 1].airline)
        /\ WellFormedRange(sorting.price_range) =>
              /\ \A i \in 1..Len(R) : InRange(sorting.price_range, R[i].prices[c])
              /\ Len(R) = Cardinality({j \in 1..Len(sorting.flights) :
                              InRange(sorting.price_range, sorting.flights[j].prices[c])})

\* C24 witness: a search sorted by duration returned two of three generated
\* flights, the third being outside the price range, in an order that is not
\* the order they were generated in
C24_Witness ==
    /\ sorting.pc = "done" /\ sorting.result.kind = "return"
    /\ sorting.sort_by = << "d", "u", "r", "a", "t", "i", "o", "n" >>
    /\ sorting.cabin_class \in CabinClasses
    /\ WellFormedRange(sorting.price_range)
    /\ Len(sorting.flights) = 3 /\ Len(sorting.result.val) = 2
    /\ sorting.result.val[1].duration # sorting.result.val[2].duration
    /\ \E i, j \in 1..3 :
          /\ i < j
          /\ sorting.flights[j].duration = sorting.result.val[1].duration
          /\ sorting.flights[i].duration = sorting.result.val[2].duration

============================================================================
